---- MODULE Spec2Model ----
(***************************************************************************)
(* LiveDict: a TTL key-value cache with hook callbacks.                    *)
(*                                                                         *)
(* Two stores live in the repository and both are modelled here:           *)
(*   - the v2 cache, LiveDictImpl over MemoryBackend with its              *)
(*     ExpiryScheduler worker and its callback registry / thread pool      *)
(*     (src/livedict/modules/livedict.py, storage_backend.py, sandbox.py); *)
(*   - the legacy encrypted LiveDict with per-entry hooks and a heap       *)
(*     monitor (src/src/core.py).                                          *)
(*                                                                         *)
(* Time is a discrete clock `now`; time.time() reads it.  API calls of the *)
(* caller are atomic steps; the scheduler worker is a thread and advances  *)
(* one lock region / backend call at a time.                               *)
(***************************************************************************)
EXTENDS Integers, Sequences, FiniteSets, TLC

\* ------------------------------------------------------------------ bounds
MaxTime == 2
MaxTTL == 2
MaxHeap == 2
MaxCallbacks == 2
MaxTasks == 2
MaxKeyring == 2
MaxDepth == 2
MaxIncs == 3

\* ------------------------------------------------------------ input domains
Keys == {"k1", "k2"}
Threads == {"t1", "t2"}
Values == {"a", "b"}
KeyOrder == <<"k1", "k2">>

\* Python's None: the default of get, the return value of set and delete.
None == "None"
\* A key that is not in a dict (dict.get / dict.pop miss).
Absent == "<absent>"
\* ttl=None of set(): no expiry requested; also "key not in _ttls".
NoTTL == -1
TTLs == 1..MaxTTL

\* The event names of the callback registry.
EVENT_SET == "set"
EVENT_GET == "get"
EVENT_DELETE == "delete"
EVENT_EXPIRE == "expire"
Events == {EVENT_SET, EVENT_GET, EVENT_DELETE, EVENT_EXPIRE}
GLOBAL == "__global__"
\* Every string is a key: the ones above, the empty string, and the name
\* the registry files the global callbacks under.
StoreKeys == Keys \cup {"", GLOBAL}
\* ThreadPoolExecutor(max_workers=8)
PoolSize == 8
\* LiveDict(default_ttl=600)
DefaultTtl == 600

VARIABLES
    now,        \* time.time()
    \* MemoryBackend
    store,      \* _store: key -> value (Absent: not a key of the dict)
    ttls,       \* _ttls: key -> absolute expiry (NoTTL: not a key of the dict)
    \* ExpiryScheduler
    heap,       \* _heap: the nodes <<when, key>>, kept in heap (sorted) order
    cancelled,  \* _cancelled
    stop,       \* _stop
    wpc,        \* where the worker thread is in run()
    wnode,      \* the node the worker popped (when, key)
    wval,       \* val read by _handle_expiry
    \* callback registry and dispatch
    callbacks,  \* cbid -> CallbackEntry with its event and target, or unregistered
    nextCb,     \* the next fresh callback id
    queue,      \* work items submitted to the executor, FIFO
    running,    \* work items a pool thread is executing (begun: the hook was entered)
    hookLog,    \* per callback: how its latest execution ended in the dispatch layer
    shutdown,   \* the executor has been shut down
    \* the caller's view
    ret,        \* the latest API call: its exception, the callbacks it dispatched
    \* history (not program state)
    last,       \* per key: the latest set/delete call on it
    fired,      \* per key: expire events raised since that call
    flagReq,    \* per callback: what the API calls have asked of its flag
    \* legacy LiveDict (core.py)
    lstore,     \* _store: key -> Entry, a function on the keys present
    lheap,      \* _heap: the nodes <<expire_at, key>> in heap order
    lkeys,      \* len(_keys)
    lidx,       \* _current_key_idx: 0 at construction, the last one after a rotation
    lrunning,   \* _running
    mpc,        \* the monitor thread: waiting on the condition or scanning
    mnow,       \* the monitor's local `now` (0 outside a scan)
    lret,       \* how the latest API call ended for the caller, if it was a get
    lexpLog,    \* how the monitor's latest on_expire run ended
    redis_enabled, \* enable_redis and bool(redis_client)
    lredis,     \* the Redis server: key -> blob and its expiry, on the keys present
    \* caller threads and the per-key locks (_key_locks)
    held,       \* thread -> key -> how many times the thread holds the key's RLock
    acq,        \* thread -> the lk.acquire it is blocked in (key, deadline), if any
    lockRet,    \* thread -> what its latest lock() call returned
    \* work_mode='async': the facade hands each call to the loop's executor
    atold,      \* caller -> key -> locks it was told it got, less its unlocks
    ajob,       \* pool thread -> the call it was handed, and where it is
    \* writer threads doing lock / get / set / unlock
    wst,        \* thread -> where it is in its read-modify-write
    tloc,       \* thread -> the value its get returned
    incs,       \* history: read-modify-writes completed so far
    seen,       \* what the latest keys() / items() / exists() call returned
    \* the locks of the v2 store, step by step
    cvOwner,    \* who holds ExpiryScheduler._cv ("-": nobody)
    glOwner,    \* who holds LiveDictImpl._global_lock ("-": nobody)
    cpc,        \* thread -> the set/delete call it is inside, and where (woke,
                \* history: the timed wait its notify ended, if any)
    wtarget,    \* the time the worker's cv.wait(timeout) ends (NoTTL: untimed)
    stoppedIn,  \* history: where the worker was when stop() set _stop
    \* SandboxedHookRunner.run, step by step
    rrun,       \* the call in progress: the hook, the child, the pipe
    \* unregister_callback, list by list
    unreg       \* the call in progress: its id, the lists done, the list rebuilt

v2vars == <<store, ttls, heap, cancelled, stop, wpc, wnode, wval>>
cbvars == <<callbacks, nextCb, queue, running, hookLog, shutdown, flagReq>>
histvars == <<last, fired>>
legvars == <<lstore, lheap, lkeys, lidx, lrunning, mpc, mnow, lret, lexpLog,
             redis_enabled, lredis>>
lockvars == <<held, acq, lockRet, atold, ajob>>
wrvars == <<wst, tloc, incs>>
fgvars == <<cvOwner, glOwner, cpc, wtarget, stoppedIn, rrun>>
thvars == <<lockvars, wrvars, seen, fgvars, unreg>>
vars == <<now, v2vars, cbvars, ret, histvars, legvars, thvars>>

CbIds == 1..MaxCallbacks
NoExc == "none"
NoCb == [event |-> "-", target |-> "-", enabled |-> FALSE]
NoNode == [when |-> NoTTL, key |-> "-"]
NoCall == [exc |-> NoExc, sent |-> <<>>]
NoGet == [key |-> "-", val |-> None, exc |-> NoExc, ran |-> "-"]
NoSeen == [op |-> "-", key |-> "-", keys |-> {}, items |-> {}, found |-> FALSE]
NoWait == [key |-> "-", deadline |-> NoTTL]
NoLast == [op |-> "-", val |-> None, exp |-> NoTTL, pend |-> "-"]

\* ------------------------------------------------------------ MemoryBackend
\* _set_value: store the value; record now+ttl, or drop the key's ttl.
MemSetStore(k, v, ttl) == [store EXCEPT ![k] = v]
MemSetTtls(k, v, ttl) ==
    [ttls EXCEPT ![k] = IF ttl # NoTTL THEN now + ttl ELSE NoTTL]

\* "exp is not None and time.time() >= exp"
MemExpired(k) == ttls[k] # NoTTL /\ now >= ttls[k]

\* _get_value: an expired key is popped and the default returned.
MemGetValue(k, default) ==
    IF MemExpired(k) THEN default
    ELSE IF store[k] = Absent THEN default ELSE store[k]
MemGetStore(k) == IF MemExpired(k) THEN [store EXCEPT ![k] = Absent] ELSE store
MemGetTtls(k) == IF MemExpired(k) THEN [ttls EXCEPT ![k] = NoTTL] ELSE ttls

\* _delete_value on a given state of the two dicts.
MemDelStore(st, k) == [st EXCEPT ![k] = Absent]
MemDelTtls(tt, k) == [tt EXCEPT ![k] = NoTTL]

\* Every key of _store is listed, expired or not.
MemKeysRaw == {k \in StoreKeys : store[k] # Absent}
\* _keys / _items: the keys of _store whose expiry has not been reached.
MemKeys == {k \in StoreKeys : store[k] # Absent /\ ~MemExpired(k)}
MemItems == {<<k, store[k]>> : k \in MemKeys}
\* _exists
MemExists(k) == ~MemExpired(k) /\ store[k] # Absent
\* _keys / _items pop every expired key they pass.
MemPurgedStore == [k \in StoreKeys |-> IF MemExpired(k) THEN Absent ELSE store[k]]
MemPurgedTtls == [k \in StoreKeys |-> IF MemExpired(k) THEN NoTTL ELSE ttls[k]]

\* ---------------------------------------------------------- ExpiryScheduler
Rank(k) == CHOOSE i \in 1..Len(KeyOrder) : KeyOrder[i] = k
\* Python's tuple order on (when, key).
NodeLess(a, b) ==
    \/ a.when < b.when
    \/ a.when = b.when /\ Rank(a.key) < Rank(b.key)

\* heapq.heappush: the heap is kept as the sorted sequence of its nodes, whose
\* head is heap[0].
HeapPush(h, n) ==
    LET lower == SelectSeq(h, LAMBDA x : NodeLess(x, n) \/ x = n)
        upper == SelectSeq(h, LAMBDA x : NodeLess(n, x))
    IN  lower \o <<n>> \o upper

\* schedule(key, when)
Schedule(h, k, when) == HeapPush(h, [when |-> when, key |-> k])
\* cancel(key)
Cancel(c, k) == c \cup {k}

HasNode(k) == \E i \in 1..Len(heap) : heap[i].key = k
WorkerHolds(k) == wpc \in {"popped", "expire_get", "expire_del"} /\ wnode.key = k
\* Where an expiry of k is pending when a call on k is made: with the worker,
\* in the heap, or nowhere.
Pending(k) ==
    IF WorkerHolds(k) THEN "worker" ELSE IF HasNode(k) THEN "heap" ELSE "none"

\* --------------------------------------------------------- callback registry
IdSeq == [i \in 1..MaxCallbacks |-> i]

\* The key's entries, then the global ones, whatever their flag.
GatherAll(event, key) ==
    LET forKey == SelectSeq(IdSeq, LAMBDA c :
                      callbacks[c].event = event /\ callbacks[c].target = key)
        forAll == SelectSeq(IdSeq, LAMBDA c :
                      callbacks[c].event = event /\ callbacks[c].target = GLOBAL)
    IN  forKey \o forAll

\* _gather_callbacks: the key's entries, then the global ones, enabled only.
GatherCallbacks(event, key) ==
    LET forKey == SelectSeq(IdSeq, LAMBDA c :
                      callbacks[c].event = event /\ callbacks[c].target = key)
        forAll == SelectSeq(IdSeq, LAMBDA c :
                      callbacks[c].event = event /\ callbacks[c].target = GLOBAL)
    IN  SelectSeq(forKey \o forAll, LAMBDA c : callbacks[c].enabled)

WorkItems(entries, event, key, value) ==
    [i \in 1..Len(entries) |->
        [cb |-> entries[i], event |-> event, key |-> key, val |-> value,
         begun |-> FALSE]]

\* _trigger_event: nothing to do without entries; otherwise one
\* executor.submit per entry, which raises RuntimeError after shutdown.
TriggerEvent(event, key, value) ==
    LET entries == GatherCallbacks(event, key)
    IN  IF entries = <<>> THEN [queue |-> queue, exc |-> NoExc, sent |-> <<>>]
        ELSE IF shutdown
             THEN [queue |-> queue, exc |-> "RuntimeError", sent |-> <<>>]
        ELSE [queue |-> queue \o WorkItems(entries, event, key, value),
              exc |-> NoExc, sent |-> entries]

InFlight == Len(queue) + Len(running)
\* The model holds at most MaxTasks work items at a time.
Room(event, key) ==
    shutdown \/ InFlight + Len(GatherCallbacks(event, key)) <= MaxTasks

Range(s) == {s[i] : i \in 1..Len(s)}
\* A callback that is dispatched has no outcome yet.
LogDispatch(sent) ==
    [c \in CbIds |-> IF c \in Range(sent) THEN "none" ELSE hookLog[c]]

\* ---------------------------------------------------------------- Init
\* Everything but the constructor's Redis switch.
\* The coroutines awaiting the facade's calls, and a pool thread's states:
\* not started yet, idle, or with a call ("queued": handed to it, not begun;
\* "blocked": inside lk.acquire).
Callers == {"A", "B"}
Unborn == [st |-> "unborn", c |-> "-", op |-> "-", key |-> "-", deadline |-> NoTTL]
Idle == [st |-> "idle", c |-> "-", op |-> "-", key |-> "-", deadline |-> NoTTL]

\* No unregister_callback in progress.
NoUnreg == [pc |-> "idle", c |-> 0, done |-> {}, cur |-> <<>>, new |-> {}]

\* A thread that is in no set/delete call; no run of the sandbox in progress.
NoOp == [pc |-> "idle", op |-> "-", key |-> "-", val |-> "-", ttl |-> NoTTL,
         woke |-> NoTTL]
NoRun == [pc |-> "idle", unix |-> FALSE, hook |-> "-", alive |-> FALSE, pipe |-> "empty",
          out |-> "-", since |-> 0]

InitFields ==
    /\ now = 0
    /\ store = [k \in StoreKeys |-> Absent]
    /\ ttls = [k \in StoreKeys |-> NoTTL]
    /\ heap = <<>>
    /\ cancelled = {}
    /\ stop = FALSE
    /\ wpc = "loop"
    /\ wnode = NoNode
    /\ wval = None
    /\ callbacks = [c \in CbIds |-> NoCb]
    /\ nextCb = 1
    /\ queue = <<>>
    /\ running = <<>>
    /\ hookLog = [c \in CbIds |-> "none"]
    /\ shutdown = FALSE
    /\ ret = NoCall
    /\ last = [k \in StoreKeys |-> NoLast]
    /\ fired = [k \in StoreKeys |-> 0]
    /\ flagReq = [c \in CbIds |-> "-"]
    /\ lstore = <<>>
    /\ lheap = <<>>
    /\ lidx = 0
    /\ lrunning = TRUE
    /\ mpc = "wait"
    /\ mnow = 0
    /\ lret = NoGet
    /\ lexpLog = "none"
    /\ lredis = <<>>
    /\ held = [t \in Threads |-> [k \in Keys |-> 0]]
    /\ acq = [t \in Threads |-> NoWait]
    /\ lockRet = [t \in Threads |-> "-"]
    /\ atold = [c \in Callers |-> [k \in Keys |-> 0]]
    /\ ajob = [t \in Threads |-> Unborn]
    /\ wst = [t \in Threads |-> "idle"]
    /\ tloc = [t \in Threads |-> None]
    /\ incs = 0
    /\ seen = NoSeen
    /\ cvOwner = "-"
    /\ glOwner = "-"
    /\ cpc = [t \in Threads |-> NoOp]
    /\ wtarget = NoTTL
    /\ stoppedIn = "-"
    /\ rrun = NoRun
    /\ unreg = NoUnreg

\* enable_redis=False is the default of the legacy constructor.
Init == InitFields /\ redis_enabled = FALSE /\ lkeys = 1
\* The legacy cache built with or without a Redis client, with a generated
\* key or a supplied list of encryption_keys.
InitLegacy == InitFields /\ redis_enabled \in BOOLEAN /\ lkeys \in 1..MaxKeyring

\* ------------------------------------------------------- LiveDictImpl (v2)
\* set(key, value, ttl): backend.set, then schedule (ttl given) or cancel,
\* then the set event.
SetCall(k, v, ttl) ==
    LET ev == TriggerEvent(EVENT_SET, k, v)
    IN  /\ ttl # NoTTL => Len(heap) < MaxHeap
        /\ Room(EVENT_SET, k)
        /\ store' = MemSetStore(k, v, ttl)
        /\ ttls' = MemSetTtls(k, v, ttl)
        /\ heap' = IF ttl # NoTTL THEN Schedule(heap, k, now + ttl) ELSE heap
        /\ cancelled' = IF ttl # NoTTL THEN cancelled ELSE Cancel(cancelled, k)
        /\ queue' = ev.queue
        /\ hookLog' = LogDispatch(ev.sent)
        /\ ret' = [exc |-> ev.exc, sent |-> ev.sent]
        /\ last' = [last EXCEPT ![k] =
                       [op |-> "set", val |-> v,
                        exp |-> IF ttl # NoTTL THEN now + ttl ELSE NoTTL,
                        pend |-> Pending(k)]]
        /\ fired' = [fired EXCEPT ![k] = 0]
        /\ UNCHANGED <<legvars, now, stop, wpc, wnode, wval, callbacks, nextCb, running,
                       shutdown, flagReq>>

\* The node is scheduled, or the key cancelled, before the backend raises.
SetRaisesAfterSchedule(k, v, ttl) ==
    /\ ttl # NoTTL => Len(heap) < MaxHeap
    /\ heap' = IF ttl # NoTTL THEN Schedule(heap, k, now + ttl) ELSE heap
    /\ cancelled' = IF ttl # NoTTL THEN cancelled ELSE Cancel(cancelled, k)
    /\ ret' = [exc |-> "BackendError", sent |-> <<>>]
    /\ UNCHANGED <<legvars, thvars, now, store, ttls, stop, wpc, wnode, wval,
                   cbvars, histvars>>

\* set(key, value, ttl) on a backend whose set raises (a value SQLiteBackend
\* or RedisBackend cannot pickle, a failing database): the exception leaves
\* set at its first statement.
SetRaises(k, v, ttl) ==
    /\ ret' = [exc |-> "BackendError", sent |-> <<>>]
    /\ UNCHANGED <<legvars, thvars, now, v2vars, cbvars, histvars>>

\* set called from a thread that is not one of the writers below.
Set(k, v, ttl) == SetCall(k, v, ttl) /\ UNCHANGED thvars

\* get(key, default=None): backend.get, the get event for a value that is
\* neither the default nor None, and the value.
GetCall(k) ==
    LET val == MemGetValue(k, None)
        hit == val # None
        ev == IF hit THEN TriggerEvent(EVENT_GET, k, val)
              ELSE [queue |-> queue, exc |-> NoExc, sent |-> <<>>]
    IN  /\ hit => Room(EVENT_GET, k)
        /\ store' = MemGetStore(k)
        /\ ttls' = MemGetTtls(k)
        /\ queue' = ev.queue
        /\ hookLog' = LogDispatch(ev.sent)
        /\ ret' = [exc |-> ev.exc, sent |-> ev.sent]
        /\ UNCHANGED <<legvars, now, heap, cancelled, stop, wpc, wnode, wval, callbacks,
                       nextCb, running, shutdown, flagReq, histvars>>

\* get waits for the key's lock: it runs only while no thread holds it.
GetUnderKeyLock(k) ==
    /\ k \in Keys => \A t \in Threads : held[t][k] = 0
    /\ GetCall(k)
    /\ UNCHANGED thvars

\* get called from a thread that is not one of the writers below.
Get(k) == GetCall(k) /\ UNCHANGED thvars

\* delete(key): read the value for the event, backend.delete, cancel, the
\* delete event.  Nothing is returned.
Delete(k) ==
    LET val == MemGetValue(k, None)
        ev == TriggerEvent(EVENT_DELETE, k, val)
    IN  /\ Room(EVENT_DELETE, k)
        /\ store' = MemDelStore(MemGetStore(k), k)
        /\ ttls' = MemDelTtls(MemGetTtls(k), k)
        /\ cancelled' = Cancel(cancelled, k)
        /\ queue' = ev.queue
        /\ hookLog' = LogDispatch(ev.sent)
        /\ ret' = [exc |-> ev.exc, sent |-> ev.sent]
        /\ last' = [last EXCEPT ![k] =
                       [op |-> "delete", val |-> None, exp |-> NoTTL,
                        pend |-> Pending(k)]]
        /\ fired' = [fired EXCEPT ![k] = 0]
        /\ UNCHANGED <<legvars, thvars, now, heap, stop, wpc, wnode, wval, callbacks, nextCb,
                       running, shutdown, flagReq>>

\* keys() (also len() and iteration of the facade): backend.keys().
KeysCall ==
    /\ seen' = [NoSeen EXCEPT !.op = "keys", !.keys = MemKeys]
    /\ store' = MemPurgedStore
    /\ ttls' = MemPurgedTtls
    /\ UNCHANGED <<legvars, lockvars, wrvars, fgvars, unreg, now, heap, cancelled, stop, wpc, wnode,
                   wval, cbvars, ret, histvars>>

\* items(): backend.items().
ItemsCall ==
    /\ seen' = [NoSeen EXCEPT !.op = "items", !.keys = MemKeys, !.items = MemItems]
    /\ store' = MemPurgedStore
    /\ ttls' = MemPurgedTtls
    /\ UNCHANGED <<legvars, lockvars, wrvars, fgvars, unreg, now, heap, cancelled, stop, wpc, wnode,
                   wval, cbvars, ret, histvars>>

\* exists(key) (also "key in d" of the facade): backend.exists(key).
ExistsCall(k) ==
    /\ seen' = [NoSeen EXCEPT !.op = "exists", !.key = k, !.found = MemExists(k)]
    /\ store' = MemGetStore(k)
    /\ ttls' = MemGetTtls(k)
    /\ UNCHANGED <<legvars, lockvars, wrvars, fgvars, unreg, now, heap, cancelled, stop, wpc, wnode,
                   wval, cbvars, ret, histvars>>

\* stop(): scheduler.stop() and executor.shutdown(wait=False).
Stop ==
    /\ ~(stop /\ shutdown)
    /\ stop' = TRUE
    /\ shutdown' = TRUE
    /\ UNCHANGED <<legvars, thvars, now, store, ttls, heap, cancelled, wpc, wnode, wval,
                   callbacks, nextCb, queue, running, hookLog, flagReq, ret,
                   histvars>>

\* ----------------------------------------------------- ExpiryScheduler.run
\* One pass of the loop under the condition lock: return when stopped, wait
\* (no step) on an empty heap or a head that is not due, else pop the head.
WorkerPoll ==
    /\ wpc = "loop"
    /\ \/ /\ stop
          /\ wpc' = "exit"
          /\ UNCHANGED <<heap, wnode>>
       \/ /\ ~stop
          /\ heap # <<>>
          /\ Head(heap).when - now <= 0
          /\ wnode' = Head(heap)
          /\ heap' = Tail(heap)
          /\ wpc' = "popped"
    /\ UNCHANGED <<legvars, thvars, now, store, ttls, cancelled, stop, wval, cbvars, ret, histvars>>

\* "if key in self._cancelled": forget the cancellation and drop the node;
\* otherwise call _on_expire.
WorkerCheckCancelled ==
    /\ wpc = "popped"
    /\ \/ /\ wnode.key \in cancelled
          /\ cancelled' = cancelled \ {wnode.key}
          /\ wpc' = "loop"
       \/ /\ wnode.key \notin cancelled
          /\ wpc' = "expire_get"
          /\ UNCHANGED cancelled
    /\ UNCHANGED <<legvars, thvars, now, store, ttls, heap, stop, wnode, wval, cbvars, ret, histvars>>

\* _handle_expiry, first backend call: val = backend.get(key, default=None)
HandleExpiryGet ==
    /\ wpc = "expire_get"
    /\ wval' = MemGetValue(wnode.key, None)
    /\ store' = MemGetStore(wnode.key)
    /\ ttls' = MemGetTtls(wnode.key)
    /\ wpc' = "expire_del"
    /\ UNCHANGED <<legvars, thvars, now, heap, cancelled, stop, wnode, cbvars, ret, histvars>>

\* _handle_expiry, the rest: backend.delete(key) and the expire event (an
\* exception of the trigger is swallowed by run()).
HandleExpiryDelete ==
    LET ev == TriggerEvent(EVENT_EXPIRE, wnode.key, wval)
    IN  /\ wpc = "expire_del"
        /\ Room(EVENT_EXPIRE, wnode.key)
        /\ store' = MemDelStore(store, wnode.key)
        /\ ttls' = MemDelTtls(ttls, wnode.key)
        /\ queue' = ev.queue
        /\ hookLog' = LogDispatch(ev.sent)
        /\ fired' = [fired EXCEPT ![wnode.key] = @ + 1]
        /\ wpc' = "loop"
        /\ UNCHANGED <<legvars, thvars, now, heap, cancelled, stop, wnode, wval, callbacks, nextCb,
                       running, shutdown, flagReq, ret, last>>

\* The clock advances.
Tick ==
    /\ now < MaxTime
    /\ now' = now + 1
    /\ UNCHANGED <<v2vars, cbvars, ret, histvars, legvars, thvars>>

Worker == WorkerPoll \/ WorkerCheckCancelled \/ HandleExpiryGet \/ HandleExpiryDelete

Next ==
    \/ \E k \in Keys, v \in Values, ttl \in TTLs \cup {NoTTL} : Set(k, v, ttl)
    \/ \E k \in Keys : Get(k)
    \/ \E k \in Keys : Delete(k)
    \/ Stop
    \/ Worker
    \/ Tick

Spec == Init /\ [][Next]_vars

\* ------------------------------------------------- registry API (LiveDictImpl)
\* What one run of a hook function does: it returns, it raises, or it is still
\* running when the sandbox timeout elapses.
Hooks == {"ok", "raise", "slow"}

\* register_callback(event, fn, key): a fresh id, enabled, filed under the
\* key or, for a key that is falsy, under '__global__'.
RegisterCallback(event, key) ==
    /\ nextCb <= MaxCallbacks
    /\ callbacks' = [callbacks EXCEPT ![nextCb] =
                        [event |-> event,
                         target |-> IF key \in {None, ""} THEN GLOBAL ELSE key,
                         enabled |-> TRUE]]
    /\ flagReq' = [flagReq EXCEPT ![nextCb] = "on"]
    /\ nextCb' = nextCb + 1
    /\ ret' = NoCall
    /\ UNCHANGED <<legvars, thvars, now, v2vars, queue, running, hookLog, shutdown, histvars>>

\* The whole list the entry is filed in is dropped.
UnregisterDropsList(c) ==
    /\ callbacks[c] # NoCb
    /\ callbacks' = [d \in CbIds |->
                        IF callbacks[d].event = callbacks[c].event
                           /\ callbacks[d].target = callbacks[c].target
                        THEN NoCb ELSE callbacks[d]]
    /\ flagReq' = [flagReq EXCEPT ![c] = "-"]
    /\ ret' = NoCall
    /\ UNCHANGED <<legvars, thvars, now, v2vars, nextCb, queue, running, hookLog, shutdown, histvars>>

\* unregister_callback(cbid): the entry leaves every list.
UnregisterCallback(c) ==
    /\ callbacks[c] # NoCb
    /\ callbacks' = [callbacks EXCEPT ![c] = NoCb]
    /\ flagReq' = [flagReq EXCEPT ![c] = "-"]
    /\ ret' = NoCall
    /\ UNCHANGED <<legvars, thvars, now, v2vars, nextCb, queue, running, hookLog, shutdown, histvars>>

\* set_callback_enabled(cbid, enabled): the entry's flag is written.
SetCallbackEnabled(c, enabled) ==
    /\ callbacks[c] # NoCb
    /\ callbacks' = [callbacks EXCEPT ![c].enabled = enabled]
    /\ flagReq' = [flagReq EXCEPT ![c] =
                      IF ~enabled THEN "off" ELSE IF @ = "off" THEN "reon" ELSE @]
    /\ ret' = NoCall
    /\ UNCHANGED <<legvars, thvars, now, v2vars, nextCb, queue, running, hookLog, shutdown, histvars>>

\* ------------------------------------------------ executor and sandbox
\* sandbox_wrap_sync under _run_sync: the hook runs on its own thread, joined
\* for at most the timeout; an overrun and an exception of the hook both end
\* as a SandboxError that _run_sync swallows.
SandboxOutcome(hook) ==
    CASE hook = "ok" -> "ok"
      [] hook = "raise" -> "failed"
      [] hook = "slow" -> "timeout"

\* A pool thread takes the oldest work item.
ExecStart ==
    /\ queue # <<>>
    /\ Len(running) < PoolSize
    /\ running' = Append(running, Head(queue))
    /\ queue' = Tail(queue)
    /\ UNCHANGED <<legvars, thvars, now, v2vars, callbacks, nextCb, hookLog, shutdown, flagReq,
                   ret, histvars>>

\* A work item whose hook overruns takes every other work item down with it.
ExecFinishAbortsOthers(i, hook) ==
    /\ i \in 1..Len(running)
    /\ hookLog' = [hookLog EXCEPT ![running[i].cb] = SandboxOutcome(hook)]
    /\ running' = IF hook = "slow" THEN <<>>
                  ELSE SubSeq(running, 1, i - 1) \o SubSeq(running, i + 1, Len(running))
    /\ queue' = IF hook = "slow" THEN <<>> ELSE queue
    /\ UNCHANGED <<legvars, thvars, now, v2vars, callbacks, nextCb, shutdown, flagReq, ret, histvars>>

\* A work item whose hook raises takes every other work item down with it.
ExecFinishRaiseAborts(i, hook) ==
    /\ i \in 1..Len(running)
    /\ hookLog' = [hookLog EXCEPT ![running[i].cb] = SandboxOutcome(hook)]
    /\ running' = IF hook = "raise" THEN <<>>
                  ELSE SubSeq(running, 1, i - 1) \o SubSeq(running, i + 1, Len(running))
    /\ queue' = IF hook = "raise" THEN <<>> ELSE queue
    /\ UNCHANGED <<legvars, thvars, now, v2vars, callbacks, nextCb, shutdown, flagReq, ret, histvars>>

\* A pool thread finishes its work item; the outcome stays in the dispatch
\* layer.
ExecFinish(i, hook) ==
    /\ i \in 1..Len(running)
    /\ hookLog' = [hookLog EXCEPT ![running[i].cb] = SandboxOutcome(hook)]
    /\ running' = SubSeq(running, 1, i - 1) \o SubSeq(running, i + 1, Len(running))
    /\ UNCHANGED <<legvars, thvars, now, v2vars, callbacks, nextCb, queue, shutdown, flagReq,
                   ret, histvars>>

\* The sandbox thread of a work item a pool thread has taken enters the hook
\* function (t.start() in sandbox_wrap_sync, then target()).
HookStart(i) ==
    /\ i \in 1..Len(running)
    /\ ~running[i].begun
    /\ running' = [running EXCEPT ![i].begun = TRUE]
    /\ UNCHANGED <<legvars, thvars, now, v2vars, callbacks, nextCb, queue, hookLog,
                   shutdown, flagReq, ret, histvars>>

\* The hook of a work item that was entered comes to its end.
HookEnd(i, hook) ==
    /\ i \in 1..Len(running)
    /\ running[i].begun
    /\ ExecFinish(i, hook)

\* The (event, key) arguments register_callback is called with: one callback
\* scope per event, and for the set event both a key and the global scope.
Registrations ==
    {<<EVENT_SET, "k1">>, <<EVENT_SET, None>>, <<EVENT_GET, None>>,
     <<EVENT_DELETE, None>>}
DispatchValues == {"a"}

\* Triggers with hooks that return, raise or overrun, and callbacks that come
\* and go.
NextDispatch ==
    \/ \E r \in Registrations : RegisterCallback(r[1], r[2])
    \/ \E c \in CbIds : UnregisterCallback(c)
    \/ \E k \in Keys, v \in DispatchValues : Set(k, v, NoTTL)
    \/ \E k \in Keys : Get(k)
    \/ \E k \in Keys : Delete(k)
    \/ Stop
    \/ ExecStart
    \/ \E i \in 1..MaxTasks, h \in Hooks : ExecFinish(i, h)

SpecDispatch == Init /\ [][NextDispatch]_vars

\* Triggers with callbacks whose flag is switched off and on; the hooks
\* return.
NextRegistry ==
    \/ \E r \in Registrations : RegisterCallback(r[1], r[2])
    \/ \E c \in CbIds, b \in BOOLEAN : SetCallbackEnabled(c, b)
    \/ \E k \in Keys, v \in DispatchValues : Set(k, v, NoTTL)
    \/ \E k \in Keys : Get(k)
    \/ \E k \in Keys : Delete(k)
    \/ Stop
    \/ ExecStart
    \/ \E i \in 1..MaxTasks : ExecFinish(i, "ok")

SpecRegistry == Init /\ [][NextRegistry]_vars

\* Triggers whose work items are taken by pool threads and whose hooks are
\* entered on sandbox threads of their own.
NextOrder ==
    \/ \E r \in Registrations : RegisterCallback(r[1], r[2])
    \/ \E k \in Keys, v \in DispatchValues : Set(k, v, NoTTL)
    \/ \E k \in Keys : Get(k)
    \/ \E k \in Keys : Delete(k)
    \/ ExecStart
    \/ \E i \in 1..MaxTasks : HookStart(i)
    \/ \E i \in 1..MaxTasks, h \in Hooks : HookEnd(i, h)

SpecOrder == Init /\ [][NextOrder]_vars

\* Expiries and triggers of one key with callbacks whose hooks return or
\* raise.
ContainRegistrations == {<<EVENT_SET, None>>, <<EVENT_EXPIRE, None>>}
ContainKeys == {"k1"}
ContainTtls == {1, NoTTL}

NextContain ==
    \/ \E r \in ContainRegistrations : RegisterCallback(r[1], r[2])
    \/ \E k \in ContainKeys, v \in DispatchValues, ttl \in ContainTtls : Set(k, v, ttl)
    \/ Stop
    \/ Worker
    \/ Tick
    \/ ExecStart
    \/ \E i \in 1..MaxTasks, h \in {"ok", "raise"} : ExecFinish(i, h)

SpecContain == Init /\ [][NextContain]_vars

\* Callbacks registered, switched and unregistered while their keys are set
\* with a TTL, deleted and expired by the worker.
LifeRegistrations == {<<EVENT_SET, "k1">>}

NextLife ==
    \/ \E r \in LifeRegistrations : RegisterCallback(r[1], r[2])
    \/ \E c \in CbIds : UnregisterCallback(c)
    \/ \E c \in CbIds : SetCallbackEnabled(c, FALSE)
    \/ \E k \in ContainKeys, v \in DispatchValues : Set(k, v, 1)
    \/ \E k \in ContainKeys : Delete(k)
    \/ Worker
    \/ Tick
    \/ ExecStart
    \/ \E i \in 1..MaxTasks : ExecFinish(i, "ok")

SpecLife == Init /\ [][NextLife]_vars

\* ------------------------------------------------ get with a default
\* get(key, default): "val = backend.get(key, default=default)", the get
\* event "if val is not default and val is not None", "return val".
GetWith(k, default) ==
    LET val == MemGetValue(k, default)
        hit == val # default /\ val # None
        ev == IF hit THEN TriggerEvent(EVENT_GET, k, val)
              ELSE [queue |-> queue, exc |-> NoExc, sent |-> <<>>]
    IN  /\ hit => Room(EVENT_GET, k)
        /\ store' = MemGetStore(k)
        /\ ttls' = MemGetTtls(k)
        /\ queue' = ev.queue
        /\ hookLog' = LogDispatch(ev.sent)
        /\ ret' = [exc |-> ev.exc, sent |-> ev.sent]
        /\ UNCHANGED <<legvars, thvars, now, heap, cancelled, stop, wpc, wnode, wval,
                       callbacks, nextCb, running, shutdown, flagReq, histvars>>

\* The values stored and the defaults supplied: a plain value and None.
StorableValues == {"a", None}

\* Gets with a default on keys holding any storable value, with get
\* callbacks registered.
NextGetEvent ==
    \/ \E key \in {"k1", None} : RegisterCallback(EVENT_GET, key)
    \/ \E k \in Keys, v \in StorableValues : Set(k, v, NoTTL)
    \/ \E k \in Keys, d \in StorableValues : GetWith(k, d)
    \/ \E k \in Keys : Delete(k)
    \/ ExecStart
    \/ \E i \in 1..MaxTasks : ExecFinish(i, "ok")

SpecGetEvent == Init /\ [][NextGetEvent]_vars

\* ------------------------------------- unregister_callback, list by list
\* The lists of the registry (self._callbacks[event][target]) that exist, and
\* the ids filed in one of them.
ListsPresent == {<<callbacks[d].event, callbacks[d].target>> : d \in {e \in CbIds : callbacks[e] # NoCb}}
ListOf(l) == {d \in CbIds : callbacks[d] # NoCb /\ callbacks[d].event = l[1]
                            /\ callbacks[d].target = l[2]}

\* unregister_callback(cbid) is entered by a thread; no lock is taken.
UnregBegin(c) ==
    /\ unreg.pc = "idle"
    /\ callbacks[c] # NoCb
    /\ unreg' = [pc |-> "loop", c |-> c, done |-> {}, cur |-> <<>>, new |-> {}]
    /\ UNCHANGED <<now, v2vars, cbvars, ret, histvars, legvars, lockvars, wrvars, seen,
                   fgvars>>

\* "new = [e for e in lst if e.id != cbid]" for the next list of the loops.
UnregRead(l) ==
    /\ unreg.pc = "loop"
    /\ l \in ListsPresent \ unreg.done
    /\ unreg' = [unreg EXCEPT !.pc = "write", !.cur = l, !.new = ListOf(l) \ {unreg.c}]
    /\ UNCHANGED <<now, v2vars, cbvars, ret, histvars, legvars, lockvars, wrvars, seen,
                   fgvars>>

\* "if new: m[k] = new / else: m.pop(k, None)": the list is replaced by the
\* one built from what was read.
UnregWrite ==
    /\ unreg.pc = "write"
    /\ callbacks' = [d \in CbIds |->
                        IF d \in ListOf(unreg.cur) \ unreg.new THEN NoCb ELSE callbacks[d]]
    /\ flagReq' = [d \in CbIds |->
                      IF d \in ListOf(unreg.cur) \ unreg.new THEN "-" ELSE flagReq[d]]
    /\ unreg' = [unreg EXCEPT !.pc = "loop", !.done = @ \cup {unreg.cur}, !.cur = <<>>,
                              !.new = {}]
    /\ UNCHANGED <<now, v2vars, nextCb, queue, running, hookLog, shutdown, ret, histvars,
                   legvars, lockvars, wrvars, seen, fgvars>>

\* The loops are over: unregister_callback returns.
UnregEnd ==
    /\ unreg.pc = "loop"
    /\ ListsPresent \subseteq unreg.done
    /\ unreg' = NoUnreg
    /\ UNCHANGED <<now, v2vars, cbvars, ret, histvars, legvars, lockvars, wrvars, seen,
                   fgvars>>

RaceRegistrations == {<<EVENT_SET, "k1">>, <<EVENT_SET, None>>, <<EVENT_GET, "k1">>}

\* register_callback and triggers from other threads while an
\* unregister_callback is under way.
NextRace ==
    \/ \E r \in RaceRegistrations : RegisterCallback(r[1], r[2])
    \/ \E c \in CbIds : UnregBegin(c)
    \/ \E l \in ListsPresent : UnregRead(l)
    \/ UnregWrite
    \/ UnregEnd
    \/ \E k \in ContainKeys, v \in DispatchValues : Set(k, v, NoTTL)
    \/ \E k \in ContainKeys : Get(k)
    \/ ExecStart
    \/ \E i \in 1..MaxTasks : ExecFinish(i, "ok")

SpecRace == Init /\ [][NextRace]_vars

\* Sets on a backend that may raise, with callbacks of the set event.
FaultRegistrations == {<<EVENT_SET, None>>}

NextFault ==
    \/ \E r \in FaultRegistrations : RegisterCallback(r[1], r[2])
    \/ \E k \in Keys, v \in DispatchValues, ttl \in ContainTtls : Set(k, v, ttl)
    \/ \E k \in Keys, v \in DispatchValues, ttl \in ContainTtls : SetRaises(k, v, ttl)
    \/ \E k \in Keys : Delete(k)
    \/ ExecStart
    \/ \E i \in 1..MaxTasks : ExecFinish(i, "ok")

SpecFault == Init /\ [][NextFault]_vars

\* The listing calls beside sets with and without TTL, gets and deletes,
\* the backend's own expiry check being the only thing that removes a key
\* past its TTL.
NextListing ==
    \/ \E k \in Keys, v \in DispatchValues, ttl \in ContainTtls : Set(k, v, ttl)
    \/ \E k \in Keys : Get(k)
    \/ \E k \in Keys : Delete(k)
    \/ KeysCall
    \/ ItemsCall
    \/ \E k \in Keys : ExistsCall(k)
    \/ Tick

SpecListing == Init /\ [][NextListing]_vars

\* Callbacks of the set event registered globally, for a key, for the empty
\* string and for the key '__global__', and triggers on such keys.
ScopeRegistrations ==
    {<<EVENT_SET, None>>, <<EVENT_SET, "k1">>, <<EVENT_SET, "">>,
     <<EVENT_SET, GLOBAL>>}
ScopeKeys == {"k1", "", GLOBAL}

NextScope ==
    \/ \E r \in ScopeRegistrations : RegisterCallback(r[1], r[2])
    \/ \E c \in CbIds, b \in BOOLEAN : SetCallbackEnabled(c, b)
    \/ \E k \in ScopeKeys, v \in DispatchValues : Set(k, v, NoTTL)
    \/ \E k \in ScopeKeys : Get(k)
    \/ ExecStart
    \/ \E i \in 1..MaxTasks : ExecFinish(i, "ok")

SpecScope == Init /\ [][NextScope]_vars

\* ======================================================================
\* Per-key locks (lock / unlock) and threads that use them
\* ======================================================================
\* timeout=None of lock(): wait without limit.
NoTimeout == -1
LockTimeouts == {NoTimeout, 0, 1}

\* Every acquire finds the lock free.
AvailableAlways(t, k) == TRUE

\* RLock.acquire succeeds when no other thread owns the lock: it is free or
\* the caller owns it already (re-entrant).
Available(t, k) == \A u \in Threads \ {t} : held[u][k] = 0

\* lock(key, timeout): the key's RLock (made on first use) is acquired at
\* once and True returned, or the thread blocks in lk.acquire, with a
\* deadline when a timeout was given.
LockCall(t, k, timeout) ==
    /\ acq[t] = NoWait
    /\ held[t][k] < MaxDepth
    /\ IF Available(t, k)
       THEN /\ held' = [held EXCEPT ![t][k] = @ + 1]
            /\ lockRet' = [lockRet EXCEPT ![t] = "True"]
            /\ acq' = acq
       ELSE /\ acq' = [acq EXCEPT ![t] =
                          [key |-> k,
                           deadline |-> IF timeout = NoTimeout THEN NoTTL
                                        ELSE now + timeout]]
            /\ lockRet' = [lockRet EXCEPT ![t] = "-"]
            /\ held' = held
    /\ UNCHANGED <<now, v2vars, cbvars, ret, histvars, legvars, wrvars, seen, unreg, fgvars, atold, ajob>>

\* The blocked thread is handed the lock without a look at its owner.
LockAcquireUnchecked(t) ==
    /\ acq[t] # NoWait
    /\ held' = [held EXCEPT ![t][acq[t].key] = @ + 1]
    /\ lockRet' = [lockRet EXCEPT ![t] = "True"]
    /\ acq' = [acq EXCEPT ![t] = NoWait]
    /\ UNCHANGED <<now, v2vars, cbvars, ret, histvars, legvars, wrvars, seen, unreg, fgvars, atold, ajob>>

\* lk.acquire of a blocked thread gets the lock once its owner has released
\* it, and lock() returns True.
LockAcquire(t) ==
    /\ acq[t] # NoWait
    /\ Available(t, acq[t].key)
    /\ held' = [held EXCEPT ![t][acq[t].key] = @ + 1]
    /\ lockRet' = [lockRet EXCEPT ![t] = "True"]
    /\ acq' = [acq EXCEPT ![t] = NoWait]
    /\ UNCHANGED <<now, v2vars, cbvars, ret, histvars, legvars, wrvars, seen, unreg, fgvars, atold, ajob>>

\* lk.acquire(timeout=timeout) of a blocked thread runs out of time, and
\* lock() returns False.
LockGiveUp(t) ==
    /\ acq[t] # NoWait
    /\ acq[t].deadline # NoTTL
    /\ now >= acq[t].deadline
    /\ lockRet' = [lockRet EXCEPT ![t] = "False"]
    /\ acq' = [acq EXCEPT ![t] = NoWait]
    /\ UNCHANGED <<now, v2vars, cbvars, ret, histvars, legvars, wrvars, seen, unreg, fgvars, atold, ajob, held>>

\* unlock(key): lk.release(); the RuntimeError of a thread that does not
\* own the lock is swallowed.
Unlock(t, k) ==
    /\ acq[t] = NoWait
    /\ held' = IF held[t][k] > 0 THEN [held EXCEPT ![t][k] = @ - 1] ELSE held
    /\ UNCHANGED <<now, v2vars, cbvars, ret, histvars, legvars, wrvars, seen, unreg, fgvars, atold, ajob, acq,
                   lockRet>>

\* Threads taking and releasing the locks of the keys.
NextLock ==
    \/ \E t \in Threads, k \in Keys, timeout \in LockTimeouts : LockCall(t, k, timeout)
    \/ \E t \in Threads : LockAcquire(t)
    \/ \E t \in Threads : LockGiveUp(t)
    \/ \E t \in Threads, k \in Keys : Unlock(t, k)
    \/ Tick

SpecLock == Init /\ [][NextLock]_vars

\* ---------------------------------------------- read-modify-write threads
\* The key the writers count on, and the values it runs through: a writer
\* reads value and writes f(value).
CounterKey == "k1"
CounterSeq == <<"a", "b", "c", "d", "e">>
Succ(v) ==
    IF v = None THEN CounterSeq[1]
    ELSE CounterSeq[(CHOOSE i \in 1..Len(CounterSeq) : CounterSeq[i] = v) + 1]

\* "if live.lock('counter', timeout=1):"
WriterLock(t, timeout) ==
    /\ wst[t] = "idle"
    /\ held[t][CounterKey] = 0
    /\ LockCall(t, CounterKey, timeout)

\* "val = live.get('counter')", inside the lock.
WriterGet(t) ==
    /\ wst[t] = "idle"
    /\ acq[t] = NoWait
    /\ held[t][CounterKey] > 0
    /\ incs < MaxIncs
    /\ GetCall(CounterKey)
    /\ tloc' = [tloc EXCEPT ![t] = MemGetValue(CounterKey, None)]
    /\ wst' = [wst EXCEPT ![t] = "read"]
    /\ UNCHANGED <<lockvars, incs, seen, unreg, fgvars>>

\* "live.set('counter', val + 1)"
WriterSet(t) ==
    /\ wst[t] = "read"
    /\ SetCall(CounterKey, Succ(tloc[t]), NoTTL)
    /\ wst' = [wst EXCEPT ![t] = "idle"]
    /\ incs' = incs + 1
    /\ UNCHANGED <<lockvars, tloc, seen, unreg, fgvars>>

\* "finally: live.unlock('counter')"
WriterUnlock(t) ==
    /\ wst[t] = "idle"
    /\ held[t][CounterKey] > 0
    /\ Unlock(t, CounterKey)

\* Writers that do every read-modify-write of the key inside its lock.
NextWriters ==
    \/ \E t \in Threads, timeout \in LockTimeouts : WriterLock(t, timeout)
    \/ \E t \in Threads : LockAcquire(t)
    \/ \E t \in Threads : LockGiveUp(t)
    \/ \E t \in Threads : WriterGet(t)
    \/ \E t \in Threads : WriterSet(t)
    \/ \E t \in Threads : WriterUnlock(t)
    \/ Tick

SpecWriters == Init /\ [][NextWriters]_vars

\* ------------------------------------- per-key locks beside the store's API
\* Threads taking and releasing the lock of a key while others set, get and
\* delete it and the worker expires it.
NextHeld ==
    \/ \E t \in Threads, k \in ContainKeys, timeout \in LockTimeouts : LockCall(t, k, timeout)
    \/ \E t \in Threads : LockAcquire(t)
    \/ \E t \in Threads : LockGiveUp(t)
    \/ \E t \in Threads, k \in ContainKeys : Unlock(t, k)
    \/ \E k \in ContainKeys, v \in DispatchValues, ttl \in ContainTtls : Set(k, v, ttl)
    \/ \E k \in ContainKeys : Get(k)
    \/ \E k \in ContainKeys : Delete(k)
    \/ Worker
    \/ Tick

SpecHeld == Init /\ [][NextHeld]_vars

\* --------------------------------------------- per-key locks, async mode
\* LiveDict.lock / unlock with work_mode='async':
\* loop.run_in_executor(None, lambda: self._impl.lock(key, timeout=timeout)).
\* The executor gives the call to an idle thread of its pool, and starts a
\* new thread only when none is idle.  The caller awaits one call at a time.
AsyncSubmit(c, p, op, k, timeout) ==
    /\ \A q \in Threads : ajob[q].c # c
    /\ \/ ajob[p].st = "idle"
       \/ ajob[p].st = "unborn" /\ \A q \in Threads : ajob[q].st # "idle"
    /\ op = "lock" => (atold[c][k] < MaxDepth /\ held[p][k] < MaxDepth)
    /\ op = "unlock" => atold[c][k] > 0
    /\ ajob' = [ajob EXCEPT ![p] =
                   [st |-> "queued", c |-> c, op |-> op, key |-> k,
                    deadline |-> IF timeout = NoTimeout THEN NoTTL ELSE now + timeout]]
    /\ UNCHANGED <<now, v2vars, cbvars, ret, histvars, legvars, wrvars, seen, unreg, fgvars,
                   held, acq, lockRet, atold>>

\* The pool thread runs the call: LiveDictImpl.lock (lk.acquire on the key's
\* RLock, owned by the thread that runs it) or LiveDictImpl.unlock
\* (lk.release, the RuntimeError of a thread that is not the owner
\* swallowed).
AsyncRun(p) ==
    LET j == ajob[p]
    IN  /\ j.st = "queued"
        /\ \/ /\ j.op = "lock"
              /\ Available(p, j.key)
              /\ held' = [held EXCEPT ![p][j.key] = @ + 1]
              /\ atold' = [atold EXCEPT ![j.c][j.key] = @ + 1]
              /\ ajob' = [ajob EXCEPT ![p] = Idle]
           \/ /\ j.op = "lock"
              /\ ~Available(p, j.key)
              /\ ajob' = [ajob EXCEPT ![p].st = "blocked"]
              /\ UNCHANGED <<held, atold>>
           \/ /\ j.op = "unlock"
              /\ held' = IF held[p][j.key] > 0 THEN [held EXCEPT ![p][j.key] = @ - 1]
                         ELSE held
              /\ atold' = [atold EXCEPT ![j.c][j.key] = @ - 1]
              /\ ajob' = [ajob EXCEPT ![p] = Idle]
        /\ UNCHANGED <<now, v2vars, cbvars, ret, histvars, legvars, wrvars, seen, unreg, fgvars,
                       acq, lockRet>>

\* lk.acquire of a blocked pool thread gets the lock: the caller is told True.
AsyncAcquire(p) ==
    LET j == ajob[p]
    IN  /\ j.st = "blocked"
        /\ Available(p, j.key)
        /\ held' = [held EXCEPT ![p][j.key] = @ + 1]
        /\ atold' = [atold EXCEPT ![j.c][j.key] = @ + 1]
        /\ ajob' = [ajob EXCEPT ![p] = Idle]
        /\ UNCHANGED <<now, v2vars, cbvars, ret, histvars, legvars, wrvars, seen, unreg, fgvars,
                       acq, lockRet>>

\* lk.acquire(timeout=timeout) runs out of time: the caller is told False.
AsyncGiveUp(p) ==
    LET j == ajob[p]
    IN  /\ j.st = "blocked"
        /\ j.deadline # NoTTL
        /\ now >= j.deadline
        /\ ajob' = [ajob EXCEPT ![p] = Idle]
        /\ UNCHANGED <<now, v2vars, cbvars, ret, histvars, legvars, wrvars, seen, unreg, fgvars,
                       held, acq, lockRet, atold>>

AsyncOps == {"lock", "unlock"}

NextAsync ==
    \/ \E c \in Callers, p \in Threads, op \in AsyncOps, k \in ContainKeys,
          timeout \in LockTimeouts : AsyncSubmit(c, p, op, k, timeout)
    \/ \E p \in Threads : AsyncRun(p)
    \/ \E p \in Threads : AsyncAcquire(p)
    \/ \E p \in Threads : AsyncGiveUp(p)
    \/ Tick

SpecAsync == Init /\ [][NextAsync]_vars

\* ======================================================================
\* The v2 store lock by lock: _global_lock, the scheduler's _cv, cv.wait
\* ======================================================================
\* self._cv.notify(): a worker inside cv.wait wakes and goes round its loop.
Notified(pc) == IF pc = "wait" THEN "loop" ELSE pc

\* run(), "with self._cv:" at the top of the loop.
RunAcquire ==
    /\ wpc = "loop"
    /\ cvOwner = "-"
    /\ cvOwner' = "worker"
    /\ wpc' = "locked"
    /\ UNCHANGED <<now, store, ttls, heap, cancelled, stop, wnode, wval, cbvars, ret,
                   histvars, legvars, lockvars, wrvars, seen, unreg, glOwner, cpc, wtarget,
                   stoppedIn, rrun>>

\* The condition lock is kept when the with-block is left with a popped node.
RunInspectKeepsLock ==
    /\ wpc = "locked"
    /\ cvOwner = "worker"
    /\ \/ /\ stop
          /\ wpc' = "exit"
          /\ cvOwner' = "-"
          /\ UNCHANGED <<heap, wnode, wtarget>>
       \/ /\ ~stop
          /\ heap = <<>>
          /\ wpc' = "wait"
          /\ wtarget' = NoTTL
          /\ cvOwner' = "-"
          /\ UNCHANGED <<heap, wnode>>
       \/ /\ ~stop
          /\ heap # <<>>
          /\ Head(heap).when - now > 0
          /\ wpc' = "wait"
          /\ wtarget' = Head(heap).when
          /\ cvOwner' = "-"
          /\ UNCHANGED <<heap, wnode>>
       \/ /\ ~stop
          /\ heap # <<>>
          /\ Head(heap).when - now <= 0
          /\ wnode' = Head(heap)
          /\ heap' = Tail(heap)
          /\ wpc' = "popped"
          /\ UNCHANGED <<cvOwner, wtarget>>
    /\ UNCHANGED <<now, store, ttls, cancelled, stop, wval, cbvars, ret, histvars,
                   legvars, lockvars, wrvars, seen, unreg, glOwner, cpc, stoppedIn, rrun>>

\* run(), the body of the with-block: return when stopped; cv.wait() on an
\* empty heap; cv.wait(timeout=wait) when the head is not due; else heappop.
\* Leaving the block, or waiting, releases the condition lock.
RunInspect ==
    /\ wpc = "locked"
    /\ cvOwner = "worker"
    /\ cvOwner' = "-"
    /\ \/ /\ stop
          /\ wpc' = "exit"
          /\ UNCHANGED <<heap, wnode, wtarget>>
       \/ /\ ~stop
          /\ heap = <<>>
          /\ wpc' = "wait"
          /\ wtarget' = NoTTL
          /\ UNCHANGED <<heap, wnode>>
       \/ /\ ~stop
          /\ heap # <<>>
          /\ Head(heap).when - now > 0
          /\ wpc' = "wait"
          /\ wtarget' = Head(heap).when
          /\ UNCHANGED <<heap, wnode>>
       \/ /\ ~stop
          /\ heap # <<>>
          /\ Head(heap).when - now <= 0
          /\ wnode' = Head(heap)
          /\ heap' = Tail(heap)
          /\ wpc' = "popped"
          /\ UNCHANGED wtarget
    /\ UNCHANGED <<now, store, ttls, cancelled, stop, wval, cbvars, ret, histvars,
                   legvars, lockvars, wrvars, seen, unreg, glOwner, cpc, stoppedIn, rrun>>

\* cv.wait(timeout=wait) runs out: the worker goes round its loop.
RunWaitTimeout ==
    /\ wpc = "wait"
    /\ wtarget # NoTTL
    /\ now >= wtarget
    /\ wpc' = "loop"
    /\ wtarget' = NoTTL
    /\ UNCHANGED <<now, store, ttls, heap, cancelled, stop, wnode, wval, cbvars, ret,
                   histvars, legvars, lockvars, wrvars, seen, unreg, cvOwner, glOwner, cpc,
                   stoppedIn, rrun>>

\* run(), after the with-block: "if key in self._cancelled" is read without
\* the lock; the discard takes it again ("discard": about to take it).
RunCheckCancelled ==
    /\ wpc = "popped"
    /\ wpc' = IF wnode.key \in cancelled THEN "discard" ELSE "expire_get"
    /\ UNCHANGED <<now, store, ttls, heap, cancelled, stop, wnode, wval, cbvars, ret,
                   histvars, legvars, lockvars, wrvars, seen, unreg, fgvars>>

\* "with self._cv: self._cancelled.discard(key)", then continue.
RunDiscard ==
    /\ wpc = "discard"
    /\ cvOwner = "-"
    /\ cancelled' = cancelled \ {wnode.key}
    /\ wpc' = "loop"
    /\ UNCHANGED <<now, store, ttls, heap, stop, wnode, wval, cbvars, ret,
                   histvars, legvars, lockvars, wrvars, seen, unreg, fgvars>>

\* The worker thread, with _handle_expiry as its on_expire.
RunStep ==
    \/ RunAcquire
    \/ RunInspect
    \/ RunWaitTimeout
    \/ RunCheckCancelled
    \/ RunDiscard
    \/ HandleExpiryGet
    \/ HandleExpiryDelete

\* set / delete, "with self._global_lock:" (the store-wide RLock).
CallEnter(t, op, k, v, ttl) ==
    /\ cpc[t].pc = "idle"
    /\ glOwner = "-"
    /\ ttl # NoTTL => Len(heap) < MaxHeap
    /\ glOwner' = t
    /\ cpc' = [cpc EXCEPT ![t] = [pc |-> "backend", op |-> op, key |-> k, val |-> v,
                                  ttl |-> ttl, woke |-> NoTTL]]
    /\ UNCHANGED <<now, v2vars, cbvars, ret, histvars, legvars, lockvars, wrvars,
                   seen, unreg, cvOwner, wtarget, stoppedIn, rrun>>

\* backend.set(key, value, ttl), or backend.get and backend.delete of delete.
CallBackend(t) ==
    LET c == cpc[t]
    IN  /\ c.pc = "backend"
        /\ store' = IF c.op = "set" THEN MemSetStore(c.key, c.val, c.ttl)
                    ELSE MemDelStore(MemGetStore(c.key), c.key)
        /\ ttls' = IF c.op = "set" THEN MemSetTtls(c.key, c.val, c.ttl)
                   ELSE MemDelTtls(MemGetTtls(c.key), c.key)
        /\ cpc' = [cpc EXCEPT ![t].pc = "sched"]
        /\ UNCHANGED <<now, heap, cancelled, stop, wpc, wnode, wval, cbvars, ret,
                       histvars, legvars, lockvars, wrvars, seen, unreg, cvOwner, glOwner,
                       wtarget, stoppedIn, rrun>>

\* The node is pushed, or the key cancelled, without the notify.
CallSchedQuiet(t) ==
    LET c == cpc[t]
    IN  /\ c.pc = "sched"
        /\ cvOwner = "-"
        /\ heap' = IF c.ttl # NoTTL THEN Schedule(heap, c.key, now + c.ttl) ELSE heap
        /\ cancelled' = IF c.ttl # NoTTL THEN cancelled ELSE Cancel(cancelled, c.key)
        /\ cpc' = [cpc EXCEPT ![t].pc = "trigger"]
        /\ UNCHANGED <<now, store, ttls, stop, wpc, wnode, wval, cbvars, ret, histvars,
                       legvars, lockvars, wrvars, seen, unreg, cvOwner, glOwner, wtarget,
                       stoppedIn, rrun>>

\* scheduler.schedule(key, now + ttl) or scheduler.cancel(key), called with
\* the store-wide lock held: takes the condition lock, pushes or cancels,
\* notifies.
CallSched(t) ==
    LET c == cpc[t]
    IN  /\ c.pc = "sched"
        /\ cvOwner = "-"
        /\ heap' = IF c.ttl # NoTTL THEN Schedule(heap, c.key, now + c.ttl) ELSE heap
        /\ cancelled' = IF c.ttl # NoTTL THEN cancelled ELSE Cancel(cancelled, c.key)
        /\ wpc' = Notified(wpc)
        /\ wtarget' = IF wpc = "wait" THEN NoTTL ELSE wtarget
        /\ cpc' = [cpc EXCEPT ![t].pc = "trigger",
                              ![t].woke = IF wpc = "wait" THEN wtarget ELSE NoTTL]
        /\ UNCHANGED <<now, store, ttls, stop, wnode, wval, cbvars, ret, histvars,
                       legvars, lockvars, wrvars, seen, unreg, cvOwner, glOwner, stoppedIn,
                       rrun>>

\* _trigger_event (no callback is registered here), end of the with-block.
CallExit(t) ==
    /\ cpc[t].pc = "trigger"
    /\ glOwner' = "-"
    /\ cpc' = [cpc EXCEPT ![t] = NoOp]
    /\ UNCHANGED <<now, v2vars, cbvars, ret, histvars, legvars, lockvars, wrvars,
                   seen, unreg, cvOwner, wtarget, stoppedIn, rrun>>

\* _stop is set without the condition lock and without the notify.
StopQuiet ==
    /\ ~stop
    /\ stop' = TRUE
    /\ shutdown' = TRUE
    /\ stoppedIn' = wpc
    /\ UNCHANGED <<now, store, ttls, heap, cancelled, wpc, wnode, wval, callbacks,
                   nextCb, queue, running, hookLog, flagReq, ret, histvars, legvars,
                   lockvars, wrvars, seen, unreg, cvOwner, glOwner, cpc, wtarget, rrun>>

\* LiveDictImpl.stop: scheduler.stop() ("with self._cv: self._stop = True;
\* self._cv.notify()"), then the executor's shutdown.
StopNotify ==
    /\ ~stop
    /\ cvOwner = "-"
    /\ stop' = TRUE
    /\ shutdown' = TRUE
    /\ stoppedIn' = wpc
    /\ wpc' = Notified(wpc)
    /\ wtarget' = IF wpc = "wait" THEN NoTTL ELSE wtarget
    /\ UNCHANGED <<now, store, ttls, heap, cancelled, wnode, wval, callbacks,
                   nextCb, queue, running, hookLog, flagReq, ret, histvars, legvars,
                   lockvars, wrvars, seen, unreg, cvOwner, glOwner, cpc, rrun>>

SchedKeys == {"k1"}

NextSched ==
    \/ \E t \in Threads, k \in SchedKeys, v \in DispatchValues, ttl \in TTLs \cup {NoTTL} :
           CallEnter(t, "set", k, v, ttl)
    \/ \E t \in Threads, k \in SchedKeys : CallEnter(t, "delete", k, None, NoTTL)
    \/ \E t \in Threads : CallBackend(t)
    \/ \E t \in Threads : CallSched(t)
    \/ \E t \in Threads : CallExit(t)
    \/ StopNotify
    \/ RunStep
    \/ Tick

SpecSched == Init /\ [][NextSched]_vars

\* The worker is a thread of its own: a step it can take is taken.
SpecSchedLive == Init /\ [][NextSched]_vars /\ WF_vars(RunStep)

\* ======================================================================
\* The legacy LiveDict (core.py): encrypted entries with their own hooks
\* ======================================================================
\* _encrypt: the ciphertext opens under the key it was made with.
Encrypt(plaintext) == [kid |-> lidx, pt |-> plaintext]
\* Only the current key is tried.
DecryptCurrentOnly(ciphertext) ==
    IF ciphertext.kid = lidx THEN ciphertext.pt ELSE None

\* _decrypt: every key of the keyring is tried; None when none opens it.
Decrypt(ciphertext) ==
    IF \E i \in 0..(lkeys - 1) : i = ciphertext.kid THEN ciphertext.pt ELSE None

\* dict assignment and dict.pop on a function over the keys present.
DictSet(d, k, e) == [j \in DOMAIN d \cup {k} |-> IF j = k THEN e ELSE d[j]]
DictPop(d, k) == [j \in DOMAIN d \ {k} |-> d[j]]

\* SandboxedHookRunner.run: the hook's value, the hook's own exception, or
\* SandboxTimeout when it is still alive after the timeout.
RunnerRun(hook) ==
    CASE hook = "ok" -> "returned"
      [] hook = "raise" -> "HookError"
      [] hook = "slow" -> "SandboxTimeout"

\* Every exception of the hook is swallowed and the value returned.
OnAccessSwallowsAll(k, hook, val) ==
    [key |-> k, val |-> val, exc |-> NoExc, ran |-> hook]

\* get, from the call of on_access on: SandboxTimeout is re-raised, any other
\* exception is logged, and the value is returned.
OnAccess(k, hook, val) ==
    IF RunnerRun(hook) = "SandboxTimeout"
    THEN [key |-> k, val |-> None, exc |-> "SandboxTimeout", ran |-> hook]
    ELSE [key |-> k, val |-> val, exc |-> NoExc, ran |-> hook]

\* "entry and entry.expire_at >= time.time()"
LegacyLive(k) == k \in DOMAIN lstore /\ lstore[k].expire_at >= now

\* The API calls take the lock the monitor holds while it scans.
LockFree == mpc = "wait"

\* set(key, value, ttl, on_access, on_expire): a new Entry replaces the old
\* one and a node is pushed; "ttl or default_ttl".
LegacySet(k, v, ttl, on_access, on_expire) ==
    LET expire_at == now + (IF ttl = NoTTL THEN DefaultTtl ELSE ttl)
        entry == [ciphertext |-> Encrypt(v), expire_at |-> expire_at,
                  on_access |-> on_access, on_expire |-> on_expire]
    IN  /\ LockFree
        /\ Len(lheap) < MaxHeap
        /\ lstore' = DictSet(lstore, k, entry)
        /\ lheap' = HeapPush(lheap, [when |-> expire_at, key |-> k])
        /\ lredis' = IF redis_enabled
                     THEN DictSet(lredis, k, [blob |-> Encrypt(v), ex |-> expire_at])
                     ELSE lredis
        /\ lret' = NoGet
        /\ UNCHANGED <<thvars, now, v2vars, cbvars, ret, histvars, redis_enabled, lkeys, lidx,
                       lrunning, mpc, mnow, lexpLog>>

\* "data = None": no blob at hand.
NoData == [kid |-> -2, pt |-> None]

\* redis.get(key): the blob of a key the server holds and has not expired.
RedisGet(k) ==
    IF k \in DOMAIN lredis /\ (lredis[k].ex = NoTTL \/ now < lredis[k].ex)
    THEN lredis[k].blob
    ELSE NoData

\* The blob get(key) goes on with: the ciphertext of a live entry, else what
\* Redis holds when Redis is enabled, else nothing.
GetData(k) ==
    IF LegacyLive(k) THEN lstore[k].ciphertext
    ELSE IF redis_enabled THEN RedisGet(k)
    ELSE NoData

\* get(key): None when there is no blob or no key of the keyring opens it
\* (nothing is deleted); otherwise run on_access if the key has an entry
\* with one, and return the value.
LegacyGet(k, hook) ==
    LET data == GetData(k)
        val == Decrypt(data)
        miss == [key |-> k, val |-> None, exc |-> NoExc, ran |-> "-"]
        res == IF data = NoData THEN miss
               ELSE IF val = None THEN miss
               ELSE IF ~(k \in DOMAIN lstore /\ lstore[k].on_access)
                    THEN [key |-> k, val |-> val, exc |-> NoExc, ran |-> "-"]
               ELSE OnAccess(k, hook, val)
    IN  /\ LockFree
        /\ lret' = res
        /\ UNCHANGED <<thvars, now, v2vars, cbvars, ret, histvars, redis_enabled, lredis,
                       lstore, lheap, lkeys, lidx, lrunning, mpc, mnow, lexpLog>>

\* Another client of the Redis server writes bytes of its own under the key.
ForeignBlob == [kid |-> -1, pt |-> "data"]
RedisForeignSet(k) ==
    /\ redis_enabled
    /\ lredis' = DictSet(lredis, k, [blob |-> ForeignBlob, ex |-> NoTTL])
    /\ UNCHANGED <<thvars, now, v2vars, cbvars, ret, histvars, redis_enabled,
                   lstore, lheap, lkeys, lidx, lrunning, mpc, mnow, lret, lexpLog>>

\* The entry is popped and the key's heap nodes are left in place.
LegacyDeleteKeepsNodes(k) ==
    /\ LockFree
    /\ lstore' = DictPop(lstore, k)
    /\ lredis' = IF redis_enabled THEN DictPop(lredis, k) ELSE lredis
    /\ lret' = NoGet
    /\ UNCHANGED <<thvars, now, v2vars, cbvars, ret, histvars, redis_enabled, lkeys, lidx,
                   lheap, lrunning, mpc, mnow, lexpLog>>

\* delete(key): the entry is popped and every node of the key leaves the heap.
LegacyDelete(k) ==
    /\ LockFree
    /\ lstore' = DictPop(lstore, k)
    /\ lheap' = SelectSeq(lheap, LAMBDA n : n.key # k)
    /\ lredis' = IF redis_enabled THEN DictPop(lredis, k) ELSE lredis
    /\ lret' = NoGet
    /\ UNCHANGED <<thvars, now, v2vars, cbvars, ret, histvars, redis_enabled, lkeys, lidx,
                   lrunning, mpc, mnow, lexpLog>>

\* The operation has touched the store before the permission is refused.
LegacyDeniedAfterPop(op, k) ==
    /\ LockFree
    /\ lstore' = DictPop(lstore, k)
    /\ lret' = [key |-> k, val |-> None, exc |-> "PermissionError", ran |-> "-"]
    /\ UNCHANGED <<thvars, now, v2vars, cbvars, ret, histvars, redis_enabled, lredis,
                   lheap, lkeys, lidx, lrunning, mpc, mnow, lexpLog>>

\* set / get / delete when auth_func returns False for (op, key): the first
\* statement raises PermissionError.
LegacyDenied(op, k) ==
    /\ lret' = [key |-> k, val |-> None, exc |-> "PermissionError", ran |-> "-"]
    /\ UNCHANGED <<thvars, now, v2vars, cbvars, ret, histvars, redis_enabled, lredis,
                   lstore, lheap, lkeys, lidx, lrunning, mpc, mnow, lexpLog>>

\* rotate_key(new_key): the key is appended and becomes the current one.
RotateKey ==
    /\ LockFree
    /\ lkeys < MaxKeyring
    /\ lkeys' = lkeys + 1
    /\ lidx' = lkeys' - 1
    /\ lret' = NoGet
    /\ UNCHANGED <<thvars, now, v2vars, cbvars, ret, histvars, redis_enabled, lredis,
                   lstore, lheap, lrunning,
                   mpc, mnow, lexpLog>>

\* stop(): _running = False; the monitor leaves its loop at the next check.
LegacyStop ==
    /\ lrunning
    /\ lrunning' = FALSE
    /\ lret' = NoGet
    /\ UNCHANGED <<thvars, now, v2vars, cbvars, ret, histvars, redis_enabled, lredis,
                   lstore, lheap, lkeys, lidx,
                   mpc, mnow, lexpLog>>

\* _monitor, top of the loop: with the lock, now = time.time().  (A pass over
\* a heap with nothing due is a wait and no step.)
MonitorEnter ==
    /\ mpc = "wait"
    /\ lrunning
    /\ lheap # <<>> /\ Head(lheap).when <= now
    /\ mpc' = "scan"
    /\ mnow' = now
    /\ UNCHANGED <<thvars, now, v2vars, cbvars, ret, histvars, redis_enabled, lredis,
                   lstore, lheap, lkeys, lidx,
                   lrunning, lret, lexpLog>>

\* _monitor, one turn of the inner loop: pop the due head, pop the key's
\* entry whatever its expire_at, run its on_expire, swallow what that raises.
MonitorPop(hook) ==
    LET k == Head(lheap).key
        hooked == k \in DOMAIN lstore /\ lstore[k].on_expire
    IN  /\ mpc = "scan"
        /\ lheap # <<>> /\ Head(lheap).when <= mnow
        /\ lheap' = Tail(lheap)
        /\ lstore' = DictPop(lstore, k)
        /\ lexpLog' = IF hooked THEN RunnerRun(hook) ELSE lexpLog
        /\ UNCHANGED <<thvars, now, v2vars, cbvars, ret, histvars, redis_enabled, lredis,
                   lkeys, lidx, lrunning, mpc,
                       mnow, lret>>

\* _monitor, end of the inner loop: wait on the condition, releasing the lock.
MonitorWait ==
    /\ mpc = "scan"
    /\ ~(lheap # <<>> /\ Head(lheap).when <= mnow)
    /\ mpc' = "wait"
    /\ mnow' = 0
    /\ UNCHANGED <<thvars, now, v2vars, cbvars, ret, histvars, redis_enabled, lredis,
                   lstore, lheap, lkeys, lidx,
                   lrunning, lret, lexpLog>>

LegacyKeys == {"k1"}
LegacyOps == {"set", "get", "delete"}
LegacyValues == {"a", "b"}
LegacyTtls == {1, NoTTL}

NextLegacy ==
    \/ \E k \in LegacyKeys, v \in LegacyValues, ttl \in LegacyTtls, acc, exp \in BOOLEAN :
           LegacySet(k, v, ttl, acc, exp)
    \/ \E k \in LegacyKeys, h \in Hooks : LegacyGet(k, h)
    \/ \E k \in LegacyKeys : LegacyDelete(k)
    \/ \E op \in LegacyOps, k \in LegacyKeys : LegacyDenied(op, k)
    \/ \E k \in LegacyKeys : RedisForeignSet(k)
    \/ RotateKey
    \/ LegacyStop
    \/ MonitorEnter
    \/ \E h \in Hooks : MonitorPop(h)
    \/ MonitorWait
    \/ Tick

SpecLegacy == InitLegacy /\ [][NextLegacy]_vars

\* ======================================================================
\* SandboxedHookRunner.run step by step (core.py)
\* ======================================================================
\* timeout_seconds (the default), and what a handler can do: return, raise,
\* overrun the timeout, or end its process without sending a result.
RunnerTimeout == 1
Handlers == {"ok", "raise", "slow", "die"}

\* p.start() / t.start(), then join(self.timeout).  A thread cannot end
\* without leaving its result dict behind: "die" is a child process's.
RunnerStart(unix, hook) ==
    /\ rrun.pc = "idle"
    /\ hook = "die" => unix
    /\ rrun' = [pc |-> "join", unix |-> unix, hook |-> hook, alive |-> TRUE,
                pipe |-> "empty", out |-> "-", since |-> now]
    /\ UNCHANGED <<now, v2vars, cbvars, ret, histvars, legvars, lockvars, wrvars, seen, unreg,
                   cvOwner, glOwner, cpc, wtarget, stoppedIn>>

\* _target / wrapper in the child: the handler ends before the timeout and
\* its result (True, res) or (False, e) is sent or stored; a child that dies
\* sends nothing.
ChildEnds ==
    /\ rrun.pc = "join"
    /\ rrun.alive
    /\ rrun.hook # "slow"
    /\ now < rrun.since + RunnerTimeout
    /\ rrun' = [rrun EXCEPT !.alive = FALSE,
                            !.pipe = CASE rrun.hook = "ok" -> "value"
                                       [] rrun.hook = "raise" -> "exception"
                                       [] rrun.hook = "die" -> "empty"]
    /\ UNCHANGED <<now, v2vars, cbvars, ret, histvars, legvars, lockvars, wrvars, seen, unreg,
                   cvOwner, glOwner, cpc, wtarget, stoppedIn>>

\* join(self.timeout) returns, at the child's end or at the timeout: a child
\* still alive is a SandboxTimeout (the process is terminated); on Unix the
\* result is then received from the pipe, elsewhere read from the dict.
RunnerJoined ==
    /\ rrun.pc = "join"
    /\ ~rrun.alive \/ now >= rrun.since + RunnerTimeout
    /\ rrun' = IF rrun.alive
               THEN [rrun EXCEPT !.pc = "done", !.alive = ~rrun.unix,
                                 !.out = "SandboxTimeout"]
               ELSE IF rrun.unix
               THEN [rrun EXCEPT !.pc = "recv"]
               ELSE [rrun EXCEPT !.pc = "done",
                                 !.out = IF rrun.pipe = "exception" THEN "HookError"
                                         ELSE "returned"]
    /\ UNCHANGED <<now, v2vars, cbvars, ret, histvars, legvars, lockvars, wrvars, seen, unreg,
                   cvOwner, glOwner, cpc, wtarget, stoppedIn>>

\* "success, payload = parent_conn.recv()": blocks until there is something
\* in the pipe (the parent keeps child_conn open: no end-of-file).
RunnerRecv ==
    /\ rrun.pc = "recv"
    /\ rrun.pipe # "empty"
    /\ rrun' = [rrun EXCEPT !.pc = "done",
                            !.out = IF rrun.pipe = "exception" THEN "HookError"
                                    ELSE "returned"]
    /\ UNCHANGED <<now, v2vars, cbvars, ret, histvars, legvars, lockvars, wrvars, seen, unreg,
                   cvOwner, glOwner, cpc, wtarget, stoppedIn>>

\* run returns or raises to its caller.
RunnerReturn ==
    /\ rrun.pc = "done"
    /\ rrun' = [rrun EXCEPT !.pc = "idle"]
    /\ UNCHANGED <<now, v2vars, cbvars, ret, histvars, legvars, lockvars, wrvars, seen, unreg,
                   cvOwner, glOwner, cpc, wtarget, stoppedIn>>

NextRunner ==
    \/ \E unix \in BOOLEAN, hook \in Handlers : RunnerStart(unix, hook)
    \/ ChildEnds
    \/ RunnerJoined
    \/ RunnerRecv
    \/ RunnerReturn
    \/ Tick

SpecRunner == Init /\ [][NextRunner]_vars

\* ======================================================================
\* Claims about TTL, expiry and cancellation in the v2 cache (Spec)
\* ======================================================================

\* What get(k) returns to a caller in the current state.
GetResult(k) == MemGetValue(k, None)
\* delete(key) has no return statement: every call returns None.
DeleteResult(k) == None
\* The latest call on k was set(k, v, ttl) with a ttl.
LastSetTtl(k) == last[k].op = "set" /\ last[k].exp # NoTTL
\* The latest call on k was set(k, v) without ttl.
LastSetPlain(k) == last[k].op = "set" /\ last[k].exp = NoTTL

\* The worker was not in the middle of an expiry of k when the latest call
\* on k was made.  C1, C2 and C4 to C6 are read for such calls, which leaves
\* the race of a call with an expiry already under way out of them.
Quiet(k) == last[k].pend # "worker"

\* C1: after set(k, v, ttl), whatever set/delete calls on k came before, and
\* until the next set or delete of k, get(k) returns v at every time before
\* ttl has elapsed and the default at every time after.
C1_GetFollowsTtl ==
    \A k \in Keys :
        (LastSetTtl(k) /\ Quiet(k)) =>
            IF now < last[k].exp THEN GetResult(k) = last[k].val
            ELSE GetResult(k) = None

\* C2: a second set(k, v2, ttl2) cancels the expiry of the first: before the
\* deadline of the live entry k is not removed and no expire event has run
\* for k, and the key expires at most once.
C2_SecondSetCancelsFirst ==
    \A k \in Keys :
        (LastSetTtl(k) /\ Quiet(k)) =>
            /\ fired[k] <= 1
            /\ now < last[k].exp => (fired[k] = 0 /\ store[k] = last[k].val)

\* C3: after a single set(k, v, ttl) on a key with no other pending expiry
\* and no later call on k, once the scheduler is through with the node of
\* that set the expire event of k has run exactly once, not before the
\* deadline, and k is absent.
C3_SingleSetExpiresOnce ==
    \A k \in Keys :
        (LastSetTtl(k) /\ last[k].pend = "none") =>
            /\ fired[k] <= 1
            /\ fired[k] = 1 => (now >= last[k].exp /\ GetResult(k) = None)
            /\ (~HasNode(k) /\ ~WorkerHolds(k)) => fired[k] = 1

\* C4: after set(k, v) without ttl, however many nodes of earlier sets are
\* pending, k is not removed by expiry and no expire event is raised for k.
C4_PlainSetClearsExpiry ==
    \A k \in Keys :
        (LastSetPlain(k) /\ Quiet(k)) =>
            (fired[k] = 0 /\ store[k] = last[k].val)

\* C5: after delete(k), however many TTL'd sets preceded it, no expire event
\* is raised for k and the scheduler does not run the expiry handler on k.
C5_DeleteCancelsExpiry ==
    \A k \in Keys :
        (last[k].op = "delete" /\ Quiet(k)) =>
            /\ fired[k] = 0
            /\ ~(wpc \in {"expire_get", "expire_del"} /\ wnode.key = k)

\* C6: get(k) returns the value of the latest set(k) that has not since been
\* deleted and whose ttl, if any, has not elapsed, and the default otherwise.
C6_GetReturnsLatestSet ==
    \A k \in Keys :
        Quiet(k) =>
            GetResult(k) =
                IF /\ last[k].op = "set"
                   /\ (last[k].exp = NoTTL \/ now < last[k].exp)
                THEN last[k].val
                ELSE None

\* C7: delete(k) of a key that is not in the store is a no-op: it leaves the
\* backend, the heap and the cancellation set as they were, and what it
\* returns differs from what deleting an existing key returns.
C7_DeleteMissingIsNoOp ==
    [][\A k \in Keys :
          (store[k] = Absent /\ Delete(k)) =>
              /\ UNCHANGED <<store, ttls, heap, cancelled>>
              /\ \A j \in Keys : store[j] # Absent => DeleteResult(k) # DeleteResult(j)
      ]_vars

\* ======================================================================
\* Claims about the callback registry (SpecRegistry) and dispatch (SpecDispatch)
\* ======================================================================

\* The API calls have left the flag of c on.
Requested(c) == flagReq[c] \in {"on", "reon"}
\* The registered callbacks of the event in scope of the key whose flag the
\* API calls have left on.
Wanted(event, k) ==
    {c \in CbIds : /\ callbacks[c].event = event
                   /\ callbacks[c].target \in {k, GLOBAL}
                   /\ Requested(c)}
\* The work items this step appends to the executor's queue.
Submitted == SubSeq(queue', Len(queue) + 1, Len(queue'))
\* This step is a trigger of the event on k that hands exactly the Wanted
\* callbacks to the executor, which refuses them with RuntimeError once shut
\* down.
Handed(event, k) ==
    IF shutdown
    THEN /\ Submitted = <<>>
         /\ (ret'.exc = "RuntimeError") <=> (Wanted(event, k) # {})
    ELSE /\ ret'.exc = NoExc
         /\ {Submitted[i].cb : i \in 1..Len(Submitted)} = Wanted(event, k)
         /\ \A i \in 1..Len(Submitted) :
                Submitted[i].event = event /\ Submitted[i].key = k

HasWorkItem(c) ==
    \/ \E i \in 1..Len(queue) : queue[i].cb = c
    \/ \E i \in 1..Len(running) : running[i].cb = c

\* C9: the outcome of a hook, an overrun of its timeout included, is seen by
\* the dispatch layer only: the set/get/delete that triggered it has returned
\* without a SandboxError (it raises only when the executor is shut down),
\* whatever the hooks do, and every callback it dispatched keeps its own work
\* item until that has run.
C9_TimeoutStaysInDispatch ==
    /\ ret.exc \in {NoExc, "RuntimeError"}
    /\ ret.exc = "RuntimeError" => shutdown
    /\ \A c \in Range(ret.sent) : HasWorkItem(c) \/ hookLog[c] # "none"

\* The triggering call has returned normally, one of the two hooks it
\* dispatched has overrun its timeout and the other has run to its end.
C9_OneTimedOutOtherRan ==
    /\ ret.exc = NoExc
    /\ \E c, d \in Range(ret.sent) :
           /\ c # d
           /\ hookLog[c] = "timeout"
           /\ hookLog[d] = "ok"
           /\ ~HasWorkItem(c) /\ ~HasWorkItem(d)

\* ======================================================================
\* Claims about the hooks of the legacy LiveDict (SpecLegacy)
\* ======================================================================

\* C10: in the legacy LiveDict, get(k) of a live entry whose on_access hook
\* overruns the sandbox timeout raises SandboxTimeout to the caller and
\* returns no value; when on_access ends any other way, its own exception
\* included, get returns the stored value and raises nothing.
C10_OnlyTimeoutReachesCaller ==
    [][\A k \in LegacyKeys, h \in Hooks :
          (LegacyGet(k, h) /\ LegacyLive(k) /\ lstore[k].on_access) =>
              IF h = "slow"
              THEN lret'.exc = "SandboxTimeout" /\ lret'.val = None
              ELSE lret'.exc = NoExc /\ lret'.val = Decrypt(lstore[k].ciphertext)
      ]_vars

\* A get whose on_access hook overran has raised SandboxTimeout, the entry
\* still being in the store.
C10_GetRaisedTimeout ==
    /\ lret.ran = "slow"
    /\ lret.exc = "SandboxTimeout"
    /\ lret.key \in DOMAIN lstore

\* C11: whatever set and rotate_key calls were made, get returns every value
\* still within its TTL as it was written, however many rotations followed
\* the write (the key that wrote it is still in the keyring and is tried),
\* and a set made after a rotation (_current_key_idx is no longer 0)
\* encrypts with the newest key of the keyring.
C11_RotationKeepsValues ==
    [][\A k \in LegacyKeys :
          /\ \A h \in Hooks :
                 (/\ LegacyGet(k, h)
                  /\ LegacyLive(k)
                  /\ lstore[k].on_access => h # "slow") =>
                     (lret'.val = lstore[k].ciphertext.pt /\ lret'.exc = NoExc)
          /\ (/\ \E v \in LegacyValues, ttl \in LegacyTtls, acc, exp \in BOOLEAN :
                     LegacySet(k, v, ttl, acc, exp)
              /\ lidx # 0) =>
                 lstore'[k].ciphertext.kid = lkeys - 1
      ]_vars

\* The latest call is a get that returned a value written before the
\* keyring was rotated.
C11_ReadAfterRotation ==
    /\ lret.key \in DOMAIN lstore
    /\ lstore[lret.key].ciphertext.kid < lidx
    /\ lret.val = lstore[lret.key].ciphertext.pt

\* C12: a get(k) that finds a blob no key of the keyring authenticates
\* returns the default and deletes the entry: afterwards k is neither in
\* _store nor in Redis.
C12_UnreadableBlobIsDeleted ==
    [][\A k \in LegacyKeys, h \in Hooks :
          (/\ LegacyGet(k, h)
           /\ GetData(k) # NoData
           /\ Decrypt(GetData(k)) = None) =>
              /\ lret'.val = None
              /\ k \notin DOMAIN lstore'
              /\ k \notin DOMAIN lredis'
      ]_vars

\* ======================================================================
\* Claims about the per-key locks
\* ======================================================================
HoldersOf(k) == {t \in Threads : held[t][k] > 0}

C16_NoLostUpdate ==
    store[CounterKey] = IF incs = 0 THEN Absent ELSE CounterSeq[incs]

\* Both writers have incremented: one read the first value and the other
\* the second, and all increments are done.
C16_BothWritersCounted ==
    /\ incs = MaxIncs
    /\ tloc["t1"] = CounterSeq[1]
    /\ tloc["t2"] = CounterSeq[2]

\* ======================================================================
\* Claims about stop(), containment and ordering in the v2 cache
\* ======================================================================

\* C13: after stop() has returned, set, get and delete still complete
\* without raising, whether or not enabled callbacks are registered for
\* their events.
C13_CallsCompleteAfterStop ==
    (stop /\ shutdown) => ret.exc = NoExc

\* C14: once ExpiryScheduler.stop() has returned the worker fires no further
\* expiration, not even for a node it had already popped from the heap: no
\* step taken with _stop set is the expiry handler's deletion and event.
C14_NoExpiryAfterStop ==
    [][stop => /\ ~HandleExpiryDelete
               /\ \A k \in Keys : fired'[k] <= fired[k]
      ]_vars

\* C17: for two operations on one key issued one after the other by one
\* caller, a handler registered for both events starts handling the first
\* event before the second: of two work items of a key for different
\* events that pool threads have taken, the one submitted later has not
\* entered its hook while the earlier one has not.
C17_FifoPerKey ==
    \A i, j \in 1..Len(running) :
        (/\ i < j
         /\ running[i].key = running[j].key
         /\ running[i].event # running[j].event
         /\ running[j].begun) => running[i].begun

\* How many of the work items this step submits are for callback c.
TimesSubmitted(c) == Cardinality({i \in 1..Len(Submitted) : Submitted[i].cb = c})

\* C18: a trigger of event e on key k dispatches each enabled callback
\* registered for e with key k or globally exactly once and no other
\* callback, for every key string, the empty string and '__global__' among
\* them.
C18_EachInScopeOnce ==
    [][\A k \in ScopeKeys :
          (\E v \in DispatchValues : Set(k, v, NoTTL)) =>
              \A c \in CbIds :
                  TimesSubmitted(c) =
                      IF /\ callbacks[c].event = EVENT_SET
                         /\ callbacks[c].target \in {k, GLOBAL}
                         /\ callbacks[c].enabled
                      THEN 1 ELSE 0
      ]_vars

\* C19: a handler that raises is contained: the call that triggered it has
\* returned without the handler's exception, every other handler of the
\* same event keeps its work item until it has run, and the scheduler worker
\* is in its loop unless stop() ended it, whatever was raised while an
\* expiry was handled.
C19_RaisingHandlerContained ==
    /\ ret.exc \notin {"SandboxError", "HookError"}
    /\ \A c, d \in Range(ret.sent) :
           hookLog[c] = "failed" => (HasWorkItem(d) \/ hookLog[d] # "none")
    /\ wpc \in {"loop", "popped", "expire_get", "expire_del", "exit"}
    /\ wpc = "exit" => stop

\* The handler of an earlier expire event has raised and the worker, not
\* stopped, is in the middle of a later expiry.
C19_WorkerFiresAfterRaise ==
    /\ ~stop
    /\ wpc = "expire_del"
    /\ \E c \in CbIds : callbacks[c].event = EVENT_EXPIRE /\ hookLog[c] = "failed"

\* C20: when the backend raises during set(k, v, ttl) the caller gets the
\* exception, the scheduler's heap and cancellation set are as they were
\* (no node for k was pushed) and no set event is dispatched.
C20_FailedSetLeavesNoTrace ==
    [][\A k \in Keys, v \in DispatchValues, ttl \in ContainTtls :
          SetRaises(k, v, ttl) =>
              /\ ret'.exc = "BackendError"
              /\ heap' = heap
              /\ cancelled' = cancelled
              /\ queue' = queue /\ running' = running
              /\ ret'.sent = <<>>
      ]_vars

\* A set has failed in the backend although an enabled callback of the set
\* event is registered; the heap holds no node and no work item is around.
C20_SetFailedUnderCallback ==
    /\ ret.exc = "BackendError"
    /\ \E c \in CbIds : callbacks[c].event = EVENT_SET /\ callbacks[c].enabled
    /\ heap = <<>>
    /\ queue = <<>> /\ running = <<>>

\* ======================================================================
\* Claims about listing, permissions, locks and the worker's timing
\* ======================================================================

\* C21: keys(), items() and exists() (and len() and iteration, which go
\* through keys()) never report a key whose backend TTL has elapsed, and
\* report a key exactly when get(k) would return its stored value.
C21_ListingAgreesWithGet ==
    [][/\ (KeysCall \/ ItemsCall) =>
              /\ seen'.keys = {k \in StoreKeys : GetResult(k) # None}
              /\ \A k \in seen'.keys : ~MemExpired(k)
       /\ ItemsCall =>
              seen'.items = {<<k, GetResult(k)>> : k \in seen'.keys}
       /\ \A k \in Keys :
              ExistsCall(k) => (seen'.found <=> GetResult(k) # None)
      ]_vars

\* keys() has just left out a key that is past its TTL and was still in the
\* backend when it was called, and has reported the other key.
C21_ExpiredKeyLeftOut ==
    /\ seen.op = "keys"
    /\ seen.keys = {"k2"}
    /\ last["k1"].op = "set" /\ last["k1"].exp # NoTTL /\ now >= last["k1"].exp
    /\ fired["k1"] = 0

\* C22: in the legacy LiveDict an operation auth_func refuses raises
\* PermissionError and leaves the store, the expiry heap (and Redis) as
\* they were; the operations it allows go their normal way.
C22_DeniedLeavesStore ==
    [][\A op \in LegacyOps, k \in LegacyKeys :
          LegacyDenied(op, k) =>
              /\ lret'.exc = "PermissionError"
              /\ lstore' = lstore
              /\ lheap' = lheap
              /\ lredis' = lredis
      ]_vars

\* An operation on a key that has an entry and a node was refused, and both
\* are still there.
C22_DeniedOnStoredKey ==
    /\ lret.exc = "PermissionError"
    /\ lret.key \in DOMAIN lstore
    /\ \E i \in 1..Len(lheap) : lheap[i].key = lret.key

\* C23: a cancel invalidates only the nodes pending when it is issued: the
\* node of a set(k, v, ttl) made while nothing of k was pending, with no
\* call on k after it, is not discarded as cancelled when the worker pops
\* it, whatever delete(k) or set(k, v) without ttl came before that set.
C23_CancelSparesLaterNode ==
    [][\A k \in Keys :
          (/\ WorkerCheckCancelled
           /\ wnode.key = k
           /\ LastSetTtl(k)
           /\ last[k].pend = "none"
           /\ wnode.when = last[k].exp) => wpc' = "expire_get"
      ]_vars

\* C24: the expiry handler is serialized with set and delete behind the
\* store-wide lock: no set(k, v') and no delete(k) takes place between the
\* handler's read of k and its deletion of k.
C24_ExpirySerializedWithSet ==
    [][\A k \in Keys :
          (wpc = "expire_del" /\ wnode.key = k) =>
              /\ ~(\E v \in Values, ttl \in TTLs \cup {NoTTL} : Set(k, v, ttl))
              /\ ~Delete(k)
      ]_vars


\* C25: the worker never holds the scheduler's condition lock while it calls
\* the expiry callback, and when a set/delete that holds the store-wide lock
\* is about to call schedule/cancel while the worker is firing the expiry of
\* the same key, neither waits for the other: both can take their next step.
C25_CallbackOutsideCvLock ==
    /\ wpc \in {"expire_get", "expire_del"} => cvOwner # "worker"
    /\ \A t \in Threads :
           (cpc[t].pc = "sched" /\ glOwner = t /\ wpc \in {"expire_get", "expire_del"}
              /\ wnode.key = cpc[t].key)
           => (ENABLED CallSched(t) /\ ENABLED (HandleExpiryGet \/ HandleExpiryDelete))

\* A set holds the store-wide lock and is about to call schedule/cancel
\* while the worker is inside _handle_expiry for the same key.
C25_SetMeetsFiringWorker ==
    \E t \in Threads :
        /\ cpc[t].pc = "sched" /\ glOwner = t /\ cpc[t].op = "set"
        /\ wpc = "expire_del" /\ wnode.key = cpc[t].key

\* C26: whenever the legacy monitor runs an on_expire hook, the store lock is
\* free: a set, a get and a delete issued by another thread can complete
\* while the hook is still running.
C26_HookRunsWithoutStoreLock ==
    [][\A h \in Hooks :
          (MonitorPop(h) /\ Head(lheap).key \in DOMAIN lstore
                         /\ lstore[Head(lheap).key].on_expire)
          => /\ LockFree
             /\ ENABLED (\E k \in LegacyKeys : LegacyDelete(k))
             /\ ENABLED (\E k \in LegacyKeys, g \in Hooks : LegacyGet(k, g))
             /\ ENABLED (\E k \in LegacyKeys, v \in LegacyValues : LegacySet(k, v, NoTTL, FALSE, FALSE))]_vars

\* C27: a run of the sandbox that waits for its child's result always has one
\* to receive, whatever the handler did: run is never left in recv on a pipe
\* that nothing will write to, so it returns or raises.
C27_RunnerNeverStuck == rrun.pc = "recv" => rrun.pipe # "empty"

\* C28: once stop() has set _stop, the worker thread eventually exits,
\* wherever it was: idle on an empty heap, in a timed wait, or between the
\* pop of a node and the callback.
C28_StopReachesWorker == stop ~> (wpc = "exit")

\* The worker has exited after a stop() that found it inside cv.wait.
C28_StoppedWhileWaiting == stop /\ stoppedIn = "wait" /\ wpc = "exit"

\* C29: a node the worker has popped is due (its expireAt is not in the
\* future), and a waiting worker always waits for the earliest node of the
\* heap: untimed on an empty heap, else until the head's expireAt, also
\* after schedule() has pushed a node earlier than the one it waited for.
C29_WaitsForEarliestNode ==
    /\ wpc \in {"popped", "discard", "expire_get", "expire_del"} => wnode.when <= now
    /\ wpc = "wait" =>
           wtarget = (IF heap = <<>> THEN NoTTL ELSE Head(heap).when)

\* A set's schedule() ended the worker's wait for a later node, and the
\* worker is waiting again, now for the earlier node the set pushed.
C29_WaitRecomputed ==
    \E t \in Threads :
        /\ cpc[t].pc = "trigger" /\ cpc[t].ttl # NoTTL /\ cpc[t].woke # NoTTL
        /\ wpc = "wait" /\ wtarget # NoTTL /\ wtarget < cpc[t].woke
        /\ Len(heap) = 2 /\ heap[2].when = cpc[t].woke

\* C30: set, get and delete take no per-key lock: while a thread holds
\* lock(k), a set, a get and a delete of k by another thread can run to
\* completion, and so can every step of the worker's expiry of k (the pop of
\* its due node, the look at the cancellations, _handle_expiry).
C30_KeyLockBlocksNoCall ==
    \A t \in Threads, k \in ContainKeys :
        held[t][k] > 0 =>
            /\ \A v \in DispatchValues : ENABLED Set(k, v, NoTTL)
            /\ Len(heap) < MaxHeap => \A v \in DispatchValues : ENABLED Set(k, v, 1)
            /\ ENABLED Get(k)
            /\ ENABLED Delete(k)
            /\ (wpc = "loop" /\ heap # <<>> /\ Head(heap).when <= now) => ENABLED WorkerPoll
            /\ (wpc = "popped" /\ wnode.key = k) => ENABLED WorkerCheckCancelled
            /\ (wpc = "expire_get" /\ wnode.key = k) => ENABLED HandleExpiryGet
            /\ (wpc = "expire_del" /\ wnode.key = k) => ENABLED HandleExpiryDelete

\* t1 holds lock(k) and t2 has been blocked in lock(k) since before the
\* latest set(k, v, ttl=1) was made; that set's node is due and the worker
\* is inside _handle_expiry for k.
C30_ExpiryUnderHeldLock ==
    /\ held["t1"]["k1"] > 0
    /\ acq["t2"].key = "k1" /\ acq["t2"].deadline # NoTTL
    /\ last["k1"].op = "set" /\ last["k1"].exp # NoTTL
    /\ acq["t2"].deadline < last["k1"].exp - 1
    /\ wpc = "expire_del" /\ wnode.key = "k1" /\ wnode.when = last["k1"].exp

\* ======================================================================
\* Claims about async locks, the keyring, expiry and the registry
\* ======================================================================
\* C31: in async mode unlock releases what lock acquired: once every caller
\* that was told lock(k) succeeded has had its unlock(k) completed, no pool
\* thread holds the lock of k any more.
C31_AsyncUnlockReleases ==
    \A k \in ContainKeys :
        (\A c \in Callers : atold[c][k] = 0 /\ \A q \in Threads : ajob[q].c # c)
        => \A p \in Threads : held[p][k] = 0

\* C32: in async mode two callers are never both told that lock(k)
\* succeeded while neither has unlocked.
C32_AsyncLockExcludes ==
    \A k \in ContainKeys : \A c, d \in Callers :
        (atold[c][k] > 0 /\ atold[d][k] > 0) => c = d

\* C33: at every moment the key used for new encryptions is the newest
\* (last) key of the keyring, right after construction with any list of
\* encryption_keys and after any number of rotate_key calls.
C33_CurrentKeyIsNewest == lidx = lkeys - 1

\* C34: an entry is dead from the instant the time equals its expireAt: a
\* legacy get(k) made at any time t >= expire_at of the stored entry returns
\* the default (None) and never the stored value, whether or not the monitor
\* has removed the entry.
C34_DeadAtExpireAt ==
    [][\A k \in LegacyKeys, h \in Hooks :
          (LegacyGet(k, h) /\ k \in DOMAIN lstore /\ now >= lstore[k].expire_at)
          => lret'.val = None]_vars

\* Work items of callback c in a queue.
QueuedFor(q, c) == Len(SelectSeq(q, LAMBDA w : w.cb = c))

C36_RegisterNeverLost ==
    [][\A c \in CbIds :
          (callbacks[c] # NoCb /\ callbacks'[c] = NoCb) => unreg.c = c]_vars

\* C37: the expire event of a key carries the value the key held when its
\* TTL elapsed: when the worker fires the node of the latest set(k, v, ttl)
\* and an expire callback is dispatched, the work item handed to the
\* executor carries v.
C37_ExpireCarriesValue ==
    [][\A k \in ContainKeys :
          (/\ HandleExpiryDelete
           /\ wnode.key = k
           /\ last[k].op = "set" /\ last[k].exp = wnode.when
           /\ Len(queue') > Len(queue))
          => queue'[Len(queue')].val = last[k].val]_vars

\* C38: a get(k, default) that finds a stored value dispatches the get event
\* once to each callback in scope, with that value, and a get that misses
\* dispatches none, for every storable value: None and a value that is the
\* supplied default included.
C38_GetEventForEveryValue ==
    [][\A k \in Keys, d \in StorableValues :
          GetWith(k, d) =>
              IF store[k] # Absent /\ ~MemExpired(k) /\ ~shutdown
              THEN /\ ret'.sent = GatherCallbacks(EVENT_GET, k)
                   /\ \A i \in 1..Len(ret'.sent) :
                          queue'[Len(queue) + i].val = store[k]
              ELSE ret'.sent = <<>>]_vars

\* C39: in the legacy store, after every set, delete and monitor step each
\* entry of the store has a heap node for its key that carries the entry's
\* own expire_at, and right after delete(k) the heap holds no node for k.
C39_EntriesHaveTheirNode ==
    [][/\ \A k \in DOMAIN lstore' :
              \E i \in 1..Len(lheap') :
                  lheap'[i].key = k /\ lheap'[i].when = lstore'[k].expire_at
       /\ \A k \in LegacyKeys :
              LegacyDelete(k) => \A i \in 1..Len(lheap') : lheap'[i].key # k
      ]_vars

\* The monitor has expired an entry with its on_expire hook, the key was set
\* again, and the heap holds the new entry's node.
C39_ResetAfterExpiry ==
    /\ lexpLog # "none"
    /\ "k1" \in DOMAIN lstore
    /\ \E i \in 1..Len(lheap) :
           lheap[i].key = "k1" /\ lheap[i].when = lstore["k1"].expire_at
    /\ mpc = "wait"
====
